---------------------------- MODULE Spec2Model ----------------------------
(***************************************************************************)
(* The relay of src/handler.py (handle_websocket_connection and            *)
(* handle_openai_messages) over the upstream client of src/client.py      *)
(* (OpenAIRealtimeClient).                                                 *)
(*                                                                         *)
(* Two asyncio tasks share one OpenAIRealtimeClient: the handler task      *)
(* (the client-to-upstream loop) and openai_task (the upstream-to-client   *)
(* loop).  asyncio tasks are cooperative: a step of the model is the code  *)
(* a task runs between two suspension points.  The suspension points kept  *)
(* are websocket.receive(), ws.recv(), the ws.close() and the             *)
(* websockets.connect() awaited inside reconnect(), asyncio.sleep(0.5) in  *)
(* send_function_result and asyncio.sleep(0) in the teardown.  A send      *)
(* (ws.send, websocket.send_json) completes or raises without suspending.  *)
(*                                                                         *)
(* Text is a sequence of one-character strings; <<>> stands for both None  *)
(* and "" (the code tests names only by truthiness and membership).        *)
(***************************************************************************)
EXTENDS Integers, Sequences, FiniteSets, TLC

\* ------------------------------------------------------------------ bounds
\* upstream transports a client may open (the first connect and the reconnects)
MaxTransports == 2
\* ... and when both loops reconnect at once
MaxRaceTransports == 3
\* bytes the local audio buffer may hold in the model
MaxAudioBytes == 3200
\* tokens the arguments buffer may hold in the model
MaxArgTokens == 2
\* the count of reconnect() calls per upstream closure is kept up to this
MaxReconnectCount == 2
\* requests made of one API session
MaxRequests == 3
\* characters of a function name given to normalize_function_name
MaxNameLen == 3
\* bytes of an audio buffer given to the functions of audio_utils.py
MaxBufferLen == 4

\* ------------------------------------------------------- program constants
\* handler.py: len(audio_buffer) < 3200
MinCommitBytes == 3200

\* ---------------------------------------------------------------- text
UpperChars == <<"A","B","C","D","E","F","G","H","I","J","K","L","M",
                "N","O","P","Q","R","S","T","U","V","W","X","Y","Z">>
LowerChars == <<"a","b","c","d","e","f","g","h","i","j","k","l","m",
                "n","o","p","q","r","s","t","u","v","w","x","y","z">>
DigitChars == {"0","1","2","3","4","5","6","7","8","9"}

IsUpper(c) == \E i \in 1..26 : UpperChars[i] = c
IsLower(c) == \E i \in 1..26 : LowerChars[i] = c
IsSpace(c) == c \in {" ", "\t", "\n"}

\* str.lower() on one character
LowerChar(c) ==
    IF IsUpper(c) THEN LowerChars[CHOOSE i \in 1..26 : UpperChars[i] = c] ELSE c

\* str.strip(): leading and trailing whitespace removed
RECURSIVE LStrip(_)
LStrip(s) == IF s # <<>> /\ IsSpace(Head(s)) THEN LStrip(Tail(s)) ELSE s

RECURSIVE RStrip(_)
RStrip(s) ==
    IF s # <<>> /\ IsSpace(s[Len(s)]) THEN RStrip(SubSeq(s, 1, Len(s) - 1)) ELSE s

Strip(s) == RStrip(LStrip(s))

Lower(s) == [i \in 1..Len(s) |-> LowerChar(s[i])]

\* re.sub(r'[-\s]+', '_', s): every run of hyphens and whitespace becomes one "_"
IsSep(c) == c = "-" \/ IsSpace(c)

RECURSIVE CollapseSeps(_)
CollapseSeps(s) ==
    IF s = <<>> THEN <<>>
    ELSE IF IsSep(Head(s))
         THEN IF Len(s) > 1 /\ IsSep(s[2])
              THEN CollapseSeps(Tail(s))
              ELSE <<"_">> \o CollapseSeps(Tail(s))
         ELSE <<Head(s)>> \o CollapseSeps(Tail(s))

\* re.sub(r'[^a-zA-Z0-9_]', '', s)
IsWordChar(c) == IsUpper(c) \/ IsLower(c) \/ c \in DigitChars \/ c = "_"

KeepWordChars(s) == SelectSeq(s, IsWordChar)

\* a normalize_function_name that keeps the case of the letters
normalize_function_name_cased(name) ==
    IF name = <<>> THEN <<>> ELSE KeepWordChars(CollapseSeps(Strip(name)))

\* client.py normalize_function_name; <<>> is the None it returns
normalize_function_name(name) ==
    IF name = <<>> THEN <<>>
    ELSE KeepWordChars(CollapseSeps(Lower(Strip(name))))

\* handler.py: normalize_function_name(function_name) or function_name
NormalizedOrRaw(name) ==
    IF normalize_function_name(name) # <<>> THEN normalize_function_name(name) ELSE name

\* The names used: the one tool client.py defines, spellings of it, and others.
SendWebhook == <<"s","e","n","d","_","w","e","b","h","o","o","k">>
SendWebhookSpoken == <<"S","e","n","d"," ","W","e","b","h","o","o","k","!">>
DeleteAll == <<"d","e","l","e","t","e","-","a","l","l">>
NoName == <<>>

\* client.py normalize_functions: function_definitions has the one key send_webhook
FunctionDefinitions == {SendWebhook}

\* client.py normalize_functions on a list of {"name": ...} objects: the names of
\* the definitions returned, in order
normalize_functions(functions) ==
    LET named == SelectSeq(functions, LAMBDA n : n # <<>>)
        names == [i \in 1..Len(named) |-> normalize_function_name(named[i])]
    IN  SelectSeq(names, LAMBDA n : n # <<>> /\ n \in FunctionDefinitions)

\* client.py update_session: tools built from normalize_functions(functions)
SessionTools(functions) == normalize_functions(functions)

\* client.py update_session: enabled_functions, read by membership only
EnabledFromTools(tools) ==
    {normalize_function_name(tools[i]) : i \in 1..Len(tools)}

\* a tool_choice that lets the model call tools whatever the tool list
ToolChoiceAuto(tools) == "auto"

\* client.py update_session: tool_choice
ToolChoice(tools) == IF tools # <<>> THEN "auto" ELSE "none"

\* handler.py 37-43: the voice and the system prompt of assistant_config, which
\* connect() reads anew each time (client.py 246-247)
AssistantVoice == "alloy"
AssistantPrompt == "system_prompt"

\* client.py 354-379: the session of the session.update payload
SessionPayload(voice, system_message, functions) ==
    LET tools == SessionTools(functions) IN
    [voice |-> voice, instructions |-> system_message, tools |-> tools,
     tool_choice |-> ToolChoice(tools)]

\* no session.update was sent
NoSession == [voice |-> "", instructions |-> "", tools |-> <<>>, tool_choice |-> ""]


\* ------------------------------------------------------------ the inputs
\* assistant_config["functions"] as a list of {"name": ...} objects.  handler.py
\* passes [] ("functions can be added here"); client.py accepts any list.
FunctionConfigs == {<<>>, <<SendWebhookSpoken>>}

\* ... and a list that names a function client.py has no definition of
AssistantConfigs == FunctionConfigs \cup {<<DeleteAll>>}

\* call_id of an upstream event; NoCallId is an absent call_id
CallIds == {"c1", "c2"}
NoCallId == "none"

\* function_name an upstream event may carry
EventNames == {SendWebhook, SendWebhookSpoken, DeleteAll, NoName}

\* a field an upstream event does not carry
Absent == <<"<absent>">>

\* the text of a frame that json.loads rejects
NotJson == "<not json>"

\* NormalizedOrRaw over the names an event or a pending call may hold
NormalizedNames ==
    [name \in EventNames \cup {SendWebhook, NoName, Absent} |-> NormalizedOrRaw(name)]

\* client.py 196-198: enabled_functions as __init__ sets it, per configuration
InitialEnabled ==
    [config \in AssistantConfigs |->
        {normalize_function_name(config[i]) : i \in 1..Len(config)}]

\* client.py 322-329: enabled_functions as update_session sets it, per configuration
SessionEnabled ==
    [config \in AssistantConfigs |-> EnabledFromTools(SessionTools(config))]

\* client.py 246-248, 266-270: the session connect() sends, per configuration
SessionPayloads ==
    [config \in AssistantConfigs |->
        SessionPayload(AssistantVoice, AssistantPrompt, config)]

\* Argument text is a sequence of tokens; "url" and "event" are the parameter keys
\* handler.py looks for.
\* The tokens: "url" is the opening of an object with its "url" key, "event" the
\* opening of one with its "event" key only, "}" the closing.
Fragments == {<<"url">>, <<"}">>}
ArgumentTexts == {<<"url", "}">>, <<"url">>, <<"event", "}">>}

\* json.loads(arguments_str) succeeds: one object, opened once and closed once
JsonValid(text) ==
    /\ Len(text) >= 2
    /\ text[1] \in {"url", "event"}
    /\ text[Len(text)] = "}"
    /\ \A i \in 2..(Len(text) - 1) : text[i] \notin {"url", "event", "}"}

\* Python's  key in text
Contains(text, key) == \E i \in 1..Len(text) : text[i] = key

\* sizes of the audio chunks a client sends
ChunkSizes == {1600}

TransportLimits == {MaxTransports, MaxRaceTransports}

Transports == 1..(IF MaxTransports > MaxRaceTransports THEN MaxTransports
                                                       ELSE MaxRaceTransports)

\* ------------------------------------------------------- function calls
\* no function is called, and nothing is returned yet
NoCall == [fn |-> "none", arg |-> <<>>]

\* the function has not returned; Returned(value) is what it returned
NoReturn == [done |-> FALSE, raised |-> FALSE, value |-> <<>>]

Returned(value) == [done |-> TRUE, raised |-> FALSE, value |-> value]

\* the function raised an exception
RaisedError == [done |-> TRUE, raised |-> TRUE, value |-> <<>>]

\* characters a function name is made of in the model
NameChars == {"S", "e", " ", "-", "!", "_"}

\* the names normalize_function_name is given: every text of up to MaxNameLen
\* characters, and the names of the events
Names ==
    UNION {[1..n -> NameChars] : n \in 0..MaxNameLen}
        \cup {SendWebhook, SendWebhookSpoken, DeleteAll}

\* values of the bytes of an audio buffer in the model
ByteValues == {0, 77, 128, 255}

\* the audio buffers: every buffer of up to MaxBufferLen bytes
Buffers == UNION {[1..n -> ByteValues] : n \in 0..MaxBufferLen}

\* a size in bytes as its two 16-bit halves, hi * 65536 + lo, so that the sizes
\* around 2^32 can be written
Size(hi, lo) == [hi |-> hi, lo |-> lo]

\* the data sizes create_wav_header is given: small ones, and the ones around the
\* largest a 32-bit field holds
DataSizes ==
    {Size(0, 0), Size(0, 1), Size(0, 4800), Size(0, 65500), Size(1, 0),
     Size(65535, 65499), Size(65535, 65500), Size(65535, 65535)}

\* the format parameters the functions of audio_utils.py are given
Formats ==
    [sample_rate : {8000, 24000}, sample_width : {1, 2}, channels : {1, 2, 65536}]

\* the calls of the functions of client.py and audio_utils.py
Calls ==
    {NoCall}
        \cup {[fn |-> "normalize_function_name", arg |-> name] : name \in Names}
        \cup {[fn |-> "audio_buffer_to_base64", arg |-> buffer] : buffer \in Buffers}
        \cup {[fn |-> "create_wav_header", arg |-> [data |-> data_size, format |-> f]] :
                 data_size \in DataSizes, f \in Formats}
        \cup {[fn |-> "create_wav_from_pcm", arg |-> [data |-> pcm_data, format |-> f]] :
                 pcm_data \in Buffers, f \in Formats}

\* ------------------------------------------------------------- the state
VARIABLES
    api_key,                        \* settings.OPENAI_API_KEY is non-empty
    functions,                      \* assistant_config["functions"]
    ws,                             \* OpenAIRealtimeClient.ws: 0 is None
    is_connected,                   \* OpenAIRealtimeClient.is_connected
    enabled_functions,              \* OpenAIRealtimeClient.enabled_functions
    transport,                      \* each upstream transport: unused, open, dead, closed
    close_calls,                    \* ws.close() calls close() made on each transport
    session_sent,                   \* transports on which session.update was sent
    session_update,                 \* the session each transport was sent in session.update
    ack_received,                   \* session.created was read on the transport in o_ws
    opened,                         \* transports opened so far
    client_open,                    \* the client websocket is usable
    c_pc,                           \* where handle_websocket_connection stands
    audio_buffer,                   \* len(audio_buffer)
    is_processing,
    reconnecting,                   \* main.py: client_connections[..]["reconnecting"]
    running,                        \* main.py: the forwarding tasks created and not done
    o_pc,                           \* where openai_task stands
    o_ws,                           \* transport its ws.recv() waits on
    o_cancel,                       \* openai_task.cancel() not yet delivered
    o_cont,                         \* what send_function_result returns into
    pending_function_call,
    buffer_calls,                   \* the call_ids its fragments arrived under
    waiting_for_function_response,
    last_function_delivery_status,
    rejected_calls,                 \* calls refused at their started event and not
                                    \* announced under an allowed name since
    reconnects_since_close,         \* reconnect() calls since the last upstream closure
    credential_rejected,            \* a connect() failed on a rejected credential
    last,                           \* the step just taken
    to_client,                      \* what it sent to the client
    to_upstream,                    \* what it sent upstream
    executed,                       \* the execute_function calls it made
    received,                       \* the frame or upstream event it read
    call,                           \* a function of the relay and the argument it is given
    ret,                            \* what that function returned
    active_connections,             \* handler.py: the websockets registered
    client_connections,             \* main.py: the client ids registered
    forwarded,                      \* bytes of audio_buffer sent upstream in an
                                    \* append, per transport
    messages_queue,                 \* main.py: client_connections[..]["messages_queue"]
    response_ready,                 \* main.py: client_connections[..]["response_ready"]
    api_events,                     \* events the upstream has sent to an API connection
    r_pc,                           \* where the request handler of main.py stands
    request_id,                     \* the number of the request it serves
    response_data,                  \* the queue item the last request got
    transport_limit                 \* the transports the endpoint lets the client open

client_vars == <<ws, is_connected, enabled_functions>>
net_vars == <<transport, close_calls, session_sent, session_update, ack_received, opened>>
handler_vars == <<c_pc, audio_buffer, is_processing>>
task_vars == <<o_pc, o_ws, o_cancel, o_cont>>
tool_vars == <<pending_function_call, buffer_calls, waiting_for_function_response,
               last_function_delivery_status>>
env_vars == <<api_key, functions, client_open, rejected_calls,
              reconnects_since_close, credential_rejected>>
out_vars == <<last, to_client, to_upstream, executed, received>>
main_vars == <<reconnecting, running>>
pure_vars == <<call, ret>>
registry_vars == <<active_connections, client_connections>>
rest_vars == <<messages_queue, response_ready, api_events, r_pc, request_id, response_data>>

vars == <<client_vars, net_vars, handler_vars, task_vars, tool_vars, env_vars, out_vars,
          main_vars, pure_vars, registry_vars, forwarded, rest_vars, transport_limit>>

\* main.py 296: no forwarding task runs for the client
NoTasks == [client_to_openai |-> 0, openai_to_client |-> 0]

\* handler.py 187-191: the empty pending call
EmptyPending == [name |-> NoName, call_id |-> NoCallId, arguments_buffer |-> <<>>]

\* a message the relay makes for the client, and an upstream event passed on
Msg(type) == [fwd |-> FALSE, type |-> type]
\* a forward that repeats the first event of the transport, whatever was read
FwdStale(type) == [fwd |-> TRUE, type |-> "session.created"]

Fwd(type) == [fwd |-> TRUE, type |-> type]

\* a frame as the relay reads it: its "type", and the fields of a tool-call event
Event(type, function_name, call_id, arguments) ==
    [type |-> type, function_name |-> function_name, call_id |-> call_id,
     arguments |-> arguments]

\* a frame with its "type" only
Frame(type) == Event(type, Absent, NoCallId, Absent)

\* the step read no frame
NoEvent == Frame("none")

\* a message sent upstream on transport t
Up(t, type, call_id) == [t |-> t, type |-> type, call_id |-> call_id]

\* handler.py 34: the websocket of the client, as active_connections holds it
Websocket == "websocket"

\* main.py 281, 288: the client_id of the websocket of the client
ClientId == "client_id"

\* a teardown that leaves the registry as it is
Kept(conns, websocket) == conns

\* handler.py 169-171: the websocket is removed from the list if it is there
Removed(conns, websocket) == conns \ {websocket}

\* nothing of the local audio buffer was sent upstream
NothingForwarded == [t \in Transports |-> 0]

\* no queue item
NoItem == [type |-> "none", request |-> 0]

\* ws.send on transport t succeeds (it raises ConnectionClosed otherwise)
CanSend(t) == t # 0 /\ transport[t] = "open"

Init ==
    /\ api_key \in BOOLEAN
    /\ functions \in AssistantConfigs
    /\ ws = 0
    /\ is_connected = FALSE
    /\ enabled_functions = InitialEnabled[functions]
    /\ transport = [t \in Transports |-> "unused"]
    /\ close_calls = [t \in Transports |-> 0]
    /\ session_sent = {}
    /\ session_update = [t \in Transports |-> NoSession]
    /\ ack_received = FALSE
    /\ opened = 0
    /\ client_open = TRUE
    /\ c_pc = "init"
    /\ audio_buffer = 0
    /\ is_processing = FALSE
    /\ reconnecting = FALSE
    /\ running = NoTasks
    /\ o_pc = "unborn"
    /\ o_ws = 0
    /\ o_cancel = FALSE
    /\ o_cont = "none"
    /\ pending_function_call = EmptyPending
    /\ buffer_calls = {}
    /\ waiting_for_function_response = FALSE
    /\ last_function_delivery_status = "none"
    /\ rejected_calls = {}
    /\ reconnects_since_close = 0
    /\ credential_rejected = FALSE
    /\ last = "init"
    /\ to_client = <<>>
    /\ to_upstream = <<>>
    /\ executed = <<>>
    /\ received = NoEvent
    /\ call \in Calls
    /\ ret = NoReturn
    /\ active_connections = {}
    /\ client_connections = {}
    /\ forwarded = NothingForwarded
    /\ messages_queue = <<>>
    /\ response_ready = FALSE
    /\ api_events = <<>>
    /\ r_pc = "idle"
    /\ request_id = 0
    /\ response_data = NoItem
    /\ transport_limit \in TransportLimits

\* ------------------------------------------------- OpenAIRealtimeClient
\* client.py 564-572 close(): ws.close() whenever ws is set (ws is kept), then
\* is_connected = False.  The transport after the call:
ClosedTransport(tr, t) == IF t # 0 THEN [tr EXCEPT ![t] = "closed"] ELSE tr

\* ... and the ws.close() calls close() has made so far
CountClose(cc, t) == IF t # 0 THEN [cc EXCEPT ![t] = @ + 1] ELSE cc

\* client.py 231: the transport websockets.connect returns
NewTransport == opened + 1

\* every way a connect() may end
Outcomes == {"fail", "unauthorized", "open", "dead"}

\* how a connect() may end now: once the model's transports are used up the
\* endpoint stays unreachable
ConnectOutcomes ==
    IF opened < transport_limit THEN Outcomes ELSE {"fail", "unauthorized"}

\* client.py 229-281 connect() from the return of websockets.connect on:
\*   open: the transport is up, session.update is sent, connect returns True;
\*   dead: the transport is up but the send of session.update raises, so connect
\*         calls close() and returns False;
\*   fail: websockets.connect timed out or raised, connect returns False;
\*   unauthorized: websockets.connect raised on the endpoint's 401 answer, which
\*         the same except clause turns into False.
ConnectDone(outcome) ==
    /\ outcome \in ConnectOutcomes
    /\ credential_rejected' = (credential_rejected \/ outcome = "unauthorized")
    /\ IF outcome = "open"
       THEN /\ transport' = [transport EXCEPT ![NewTransport] = "open"]
            /\ ws' = NewTransport
            /\ is_connected' = TRUE
            /\ enabled_functions' = SessionEnabled[functions]
            /\ session_sent' = session_sent \cup {NewTransport}
            /\ session_update' =
                  [session_update EXCEPT ![NewTransport] = SessionPayloads[functions]]
            /\ opened' = NewTransport
            /\ close_calls' = close_calls
       ELSE IF outcome = "dead"
       THEN /\ transport' = ClosedTransport(transport, NewTransport)
            /\ ws' = NewTransport
            /\ is_connected' = FALSE
            /\ enabled_functions' = SessionEnabled[functions]
            /\ session_sent' = session_sent
            /\ session_update' = session_update
            /\ opened' = NewTransport
            /\ close_calls' = CountClose(close_calls, NewTransport)
       ELSE UNCHANGED <<transport, ws, is_connected, enabled_functions,
                        session_sent, session_update, opened, close_calls>>

\* a connect() that returns True without having sent session.update
SessionUpdateSkipped(outcome) == <<>>

\* the session.update of a connect() that returned True
SessionUpdate(outcome) ==
    IF outcome = "open" THEN <<Up(NewTransport, "session.update", NoCallId)>> ELSE <<>>

\* one more reconnect() call for the current closure
CountReconnect(n) == IF n < MaxReconnectCount THEN n + 1 ELSE n

\* client.py 521-537 commit_audio, 539-555 clear_audio_buffer, 501-519
\* process_audio: one ws.send; ConnectionClosed sets is_connected = False
SendOrMarkDown(type) ==
    IF is_connected /\ ws # 0
    THEN IF CanSend(ws)
         THEN /\ to_upstream' = <<Up(ws, type, NoCallId)>>
              /\ is_connected' = is_connected
         ELSE /\ to_upstream' = <<>>
              /\ is_connected' = FALSE
    ELSE /\ to_upstream' = <<>>
         /\ is_connected' = is_connected

\* a reconnect() that forgets the transport and leaves the flag as it is
ForgetTransportOnly ==
    /\ ws' = 0
    /\ UNCHANGED is_connected

\* client.py 299-300 reconnect(): the flag is reset and the transport forgotten
ForgetConnection ==
    /\ is_connected' = FALSE
    /\ ws' = 0

\* client.py 283-303 reconnect() up to its first suspension: with a transport in
\* self.ws, ws.close() is awaited; without one it goes straight on to connect()
ReconnectBegins ==
    /\ reconnects_since_close' = CountReconnect(reconnects_since_close)
    /\ IF ws # 0
       THEN /\ transport' = ClosedTransport(transport, ws)
            /\ UNCHANGED <<ws, is_connected>>
       ELSE /\ ForgetConnection
            /\ UNCHANGED transport
    /\ UNCHANGED close_calls

\* where reconnect() is suspended after ReconnectBegins
ReconnectPc == IF ws # 0 THEN "rc_close" ELSE "rc_connect"

\* ------------------------------------------- handle_websocket_connection
\* handler.py 160-172: after the loop, with openai_task already done: no cancel,
\* no sleep, the finally block runs at once
FinallyBlock ==
    /\ transport' = ClosedTransport(transport, ws)
    /\ close_calls' = CountClose(close_calls, ws)
    /\ is_connected' = FALSE
    /\ client_open' = FALSE
    /\ c_pc' = "returned"
    /\ active_connections' = Removed(active_connections, Websocket)
    /\ UNCHANGED <<ws, enabled_functions, session_sent, session_update, ack_received, opened>>

\* handler.py 154-163: the loop is left; openai_task is cancelled if it still runs
LoopExit ==
    IF o_pc = "done"
    THEN FinallyBlock /\ UNCHANGED o_cancel
    ELSE /\ o_cancel' = TRUE
         /\ c_pc' = "sleep0"
         /\ UNCHANGED <<client_vars, net_vars, client_open, active_connections>>

\* handler.py 29-73: accept, connect, start openai_task
Start(outcome) ==
    /\ c_pc = "init"
    /\ last' = IF outcome = "open" THEN "start" ELSE "start_failed"
    /\ executed' = <<>> /\ received' = NoEvent
    /\ UNCHANGED <<audio_buffer, is_processing, o_cancel, o_cont, tool_vars,
                   api_key, main_vars, pure_vars, rest_vars, transport_limit,
                   client_connections, forwarded,
                   functions, rejected_calls, reconnects_since_close, ack_received>>
    /\ active_connections' =
          IF api_key /\ outcome = "open"
          THEN active_connections \cup {Websocket}
          ELSE Removed(active_connections \cup {Websocket}, Websocket)
    /\ IF ~api_key
       THEN /\ outcome = "fail"
            /\ UNCHANGED credential_rejected
            /\ to_client' = <<Msg("error:no_api_key")>>
            /\ to_upstream' = <<>>
            /\ client_open' = FALSE
            /\ c_pc' = "returned"
            /\ UNCHANGED <<client_vars, transport, close_calls, session_sent,
                           session_update, opened,
                           o_pc, o_ws>>
       ELSE /\ to_upstream' = SessionUpdate(outcome)
            /\ IF outcome = "open"
               THEN /\ ConnectDone(outcome)
                    /\ to_client' = <<Msg("connection_status")>>
                    /\ c_pc' = "loop"
                    /\ o_pc' = "recv"
                    /\ o_ws' = NewTransport
                    /\ UNCHANGED client_open
               ELSE \* connect() returned False; the finally block calls close() again
                    /\ outcome \in ConnectOutcomes
                    /\ credential_rejected' = (outcome = "unauthorized")
                    /\ to_client' = <<Msg("error:openai_connection_failed")>>
                    /\ client_open' = FALSE
                    /\ c_pc' = "returned"
                    /\ ws' = IF outcome = "dead" THEN NewTransport ELSE ws
                    /\ is_connected' = FALSE
                    /\ opened' = IF outcome = "dead" THEN NewTransport ELSE opened
                    /\ enabled_functions' =
                          IF outcome = "dead"
                          THEN SessionEnabled[functions]
                          ELSE enabled_functions
                    \* close() in connect() (client.py 272) if the send failed,
                    \* then close() in the finally block (handler.py 167)
                    /\ transport' =
                          IF outcome = "dead"
                          THEN ClosedTransport(ClosedTransport(transport, NewTransport),
                                               NewTransport)
                          ELSE transport
                    /\ close_calls' =
                          IF outcome = "dead"
                          THEN CountClose(CountClose(close_calls, NewTransport),
                                          NewTransport)
                          ELSE close_calls
                    /\ UNCHANGED <<session_sent, session_update, o_pc, o_ws>>

\* a relay whose messages never reach the client
ToClientLost(msgs) == <<>>

\* what reaches the client of the messages a step sends it: nothing once the
\* client has gone (the send raises, and the next step leaves the loop)
ToClient(msgs) == IF client_open THEN msgs ELSE <<>>

\* what a step of the client loop leaves alone
LoopFrame ==
    /\ executed' = <<>>
    /\ UNCHANGED <<task_vars, tool_vars,
                   api_key, main_vars, pure_vars, rest_vars, transport_limit,
                   registry_vars, credential_rejected, functions,
                   rejected_calls, ack_received, session_sent, session_update, enabled_functions,
                   opened>>

\* a step of the client loop that stays in the loop and touches no connection
StaysInLoop ==
    /\ c_pc' = "loop"
    /\ UNCHANGED <<ws, transport, close_calls, is_processing, client_open,
                   reconnects_since_close>>

Receiving == c_pc = "loop" /\ client_open

\* handler.py 90-92, client.py 501-509: what of the buffer has gone upstream once
\* a chunk of n bytes is appended: process_audio sends it on the transport in
\* self.ws when the client is connected and the send succeeds
ForwardedAfter(n) ==
    IF is_connected /\ ws # 0 /\ CanSend(ws)
    THEN [forwarded EXCEPT ![ws] = @ + n]
    ELSE forwarded

\* handler.py 84-86
ClientPing ==
    /\ received' = Frame("ping")
    /\ Receiving
    /\ last' = "ping"
    /\ to_client' = <<Msg("pong")>>
    /\ to_upstream' = <<>>
    /\ LoopFrame /\ StaysInLoop
    /\ UNCHANGED forwarded
    /\ UNCHANGED <<audio_buffer, is_connected>>

\* handler.py 88-94
ClientAppend(n) ==
    /\ received' = Frame("input_audio_buffer.append")
    /\ Receiving
    /\ audio_buffer + n <= MaxAudioBytes
    /\ last' = "append"
    /\ audio_buffer' = audio_buffer + n
    /\ SendOrMarkDown("input_audio_buffer.append")
    /\ to_client' = <<Msg("input_audio_buffer.append.ack")>>
    /\ LoopFrame /\ StaysInLoop
    /\ forwarded' = ForwardedAfter(n)

\* handler.py 149-152
ClientBinary(n) ==
    /\ received' = Frame("bytes")
    /\ Receiving
    /\ audio_buffer + n <= MaxAudioBytes
    /\ last' = "binary"
    /\ audio_buffer' = audio_buffer + n
    /\ to_client' = <<Msg("binary.ack")>>
    /\ to_upstream' = <<>>
    /\ LoopFrame /\ StaysInLoop
    /\ UNCHANGED forwarded
    /\ UNCHANGED is_connected

\* a gate that stops only the empty buffer
TooShortOnlyEmpty(n) == n = 0

\* handler.py 100: the buffer is too short to commit
TooShort(n) == n < MinCommitBytes

\* handler.py 96-107
CommitShort ==
    /\ received' = Frame("input_audio_buffer.commit")
    /\ Receiving /\ ~is_processing
    /\ TooShort(audio_buffer)
    /\ last' = "commit_short"
    /\ to_client' = <<Msg("warning:audio_buffer_too_small")>>
    /\ to_upstream' = <<>>
    /\ audio_buffer' = 0
    /\ LoopFrame /\ StaysInLoop
    /\ forwarded' = NothingForwarded
    /\ UNCHANGED is_connected

\* handler.py 109-111, 123-125: the return value of commit_audio is not read
CommitConnected ==
    /\ received' = Frame("input_audio_buffer.commit")
    /\ Receiving /\ ~is_processing
    /\ ~TooShort(audio_buffer)
    /\ is_connected
    /\ last' = "commit"
    /\ SendOrMarkDown("input_audio_buffer.commit")
    /\ to_client' = <<Msg("input_audio_buffer.commit.ack")>>
    /\ audio_buffer' = 0
    /\ LoopFrame /\ StaysInLoop
    /\ forwarded' = NothingForwarded

\* handler.py 112-114: the commit finds the upstream down and calls reconnect()
CommitReconnect ==
    /\ received' = Frame("input_audio_buffer.commit")
    /\ Receiving /\ ~is_processing
    /\ ~TooShort(audio_buffer)
    /\ ~is_connected
    /\ last' = "commit_reconnect"
    /\ is_processing' = TRUE
    /\ to_client' = <<>>
    /\ to_upstream' = <<>>
    /\ ReconnectBegins
    /\ c_pc' = ReconnectPc
    /\ LoopFrame
    /\ UNCHANGED forwarded
    /\ UNCHANGED <<audio_buffer, client_open>>

\* client.py 299-303: ws.close() returned; reconnect() goes on to connect()
HandlerCloseReturned ==
    /\ received' = NoEvent
    /\ c_pc = "rc_close"
    /\ last' = "handler_close_returned"
    /\ ForgetConnection
    /\ c_pc' = "rc_connect"
    /\ to_client' = <<>>
    /\ to_upstream' = <<>>
    /\ LoopFrame
    /\ UNCHANGED forwarded
    /\ UNCHANGED <<transport, close_calls, audio_buffer, is_processing, client_open,
                   reconnects_since_close>>

\* handler.py 114-125: reconnect() returned into the commit
HandlerConnectReturned(outcome) ==
    /\ c_pc = "rc_connect"
    /\ last' = IF outcome = "open" THEN "handler_connected" ELSE "handler_connect_failed"
    /\ ConnectDone(outcome)
    /\ IF outcome = "open"
       THEN /\ to_upstream' = SessionUpdate(outcome)
                                 \o <<Up(NewTransport, "input_audio_buffer.commit", NoCallId)>>
            /\ to_client' = ToClient(<<Msg("input_audio_buffer.commit.ack")>>)
       ELSE /\ to_upstream' = <<>>
            /\ to_client' = ToClient(<<Msg("error:openai_not_connected")>>)
    /\ audio_buffer' = 0
    /\ forwarded' = NothingForwarded
    /\ is_processing' = FALSE
    /\ c_pc' = "loop"
    /\ executed' = <<>> /\ received' = NoEvent
    /\ UNCHANGED <<task_vars, tool_vars, api_key, main_vars, pure_vars, rest_vars,
                   transport_limit, registry_vars, functions, rejected_calls,
                   ack_received, client_open, reconnects_since_close>>

\* handler.py 127-132
ClientClear ==
    /\ received' = Frame("input_audio_buffer.clear")
    /\ Receiving
    /\ last' = "clear"
    /\ audio_buffer' = 0
    /\ SendOrMarkDown("input_audio_buffer.clear")
    /\ to_client' = <<Msg("input_audio_buffer.clear.ack")>>
    /\ LoopFrame /\ StaysInLoop
    /\ forwarded' = NothingForwarded

\* handler.py 134-141: ws.send is called on the transport directly, so a closed
\* transport raises ConnectionClosed into the loop's except clause (154-155)
ClientCancel ==
    /\ Receiving
    /\ last' = "cancel"
    /\ IF is_connected /\ ~CanSend(ws)
       THEN /\ to_client' = <<>>
            /\ to_upstream' = <<>>
            /\ LoopExit
            /\ UNCHANGED <<is_processing, reconnects_since_close>>
       ELSE /\ to_upstream' = IF is_connected
                              THEN <<Up(ws, "response.cancel", NoCallId)>> ELSE <<>>
            /\ to_client' = <<Msg("response.cancel.ack")>>
            /\ StaysInLoop
            /\ UNCHANGED <<is_connected, o_cancel, opened, active_connections>>
    /\ executed' = <<>> /\ received' = Frame("response.cancel")
    /\ UNCHANGED <<audio_buffer, o_pc, o_ws, o_cont, tool_vars, api_key, main_vars,
                   pure_vars, rest_vars, transport_limit, client_connections, forwarded,
                   credential_rejected, functions, rejected_calls, ack_received,
                   session_sent, session_update, enabled_functions>>

\* handler.py 143-147
ClientUnknown ==
    /\ received' = Frame("unknown")
    /\ Receiving
    /\ last' = "unknown"
    /\ to_client' = <<Msg("error:unknown_message_type")>>
    /\ to_upstream' = <<>>
    /\ LoopFrame /\ StaysInLoop
    /\ UNCHANGED forwarded
    /\ UNCHANGED <<audio_buffer, is_connected>>

\* handler.py 81, 89, 156-158: json.loads or base64_to_audio_buffer raises on the
\* frame; the exception is printed and the loop is left
ClientBadFrame ==
    /\ Receiving
    /\ last' = "bad_frame"
    /\ to_client' = <<>>
    /\ to_upstream' = <<>>
    /\ LoopExit
    /\ executed' = <<>> /\ received' = Frame(NotJson)
    /\ UNCHANGED <<audio_buffer, is_processing, o_pc, o_ws, o_cont, tool_vars,
                   api_key, main_vars, pure_vars, rest_vars, transport_limit,
                   client_connections, forwarded,
                   credential_rejected, functions, rejected_calls,
                   reconnects_since_close>>

\* the client closes its websocket
ClientGone ==
    /\ c_pc \in {"loop", "rc_close", "rc_connect"}
    /\ client_open
    /\ client_open' = FALSE
    /\ last' = "client_gone"
    /\ to_client' = <<>>
    /\ to_upstream' = <<>>
    /\ executed' = <<>> /\ received' = NoEvent
    /\ UNCHANGED <<client_vars, net_vars, handler_vars, task_vars, tool_vars,
                   api_key, main_vars, pure_vars, rest_vars, transport_limit,
                   registry_vars, forwarded,
                   credential_rejected, functions, rejected_calls,
                   reconnects_since_close>>

\* handler.py 78, 154-163: websocket.receive() raises on the closed client
ClientLoopBreak ==
    /\ c_pc = "loop" /\ ~client_open
    /\ last' = "loop_break"
    /\ to_client' = <<>>
    /\ to_upstream' = <<>>
    /\ LoopExit
    /\ executed' = <<>> /\ received' = NoEvent
    /\ UNCHANGED <<audio_buffer, is_processing, o_pc, o_ws, o_cont, tool_vars,
                   api_key, main_vars, pure_vars, rest_vars, transport_limit,
                   client_connections, forwarded,
                   credential_rejected, functions, rejected_calls,
                   reconnects_since_close>>

\* handler.py 163-172: asyncio.sleep(0) returned (openai_task has run its step by
\* then); the finally block closes the upstream client
HandlerFinally ==
    /\ c_pc = "sleep0" /\ ~o_cancel
    /\ last' = "finally"
    /\ to_client' = <<>>
    /\ to_upstream' = <<>>
    /\ FinallyBlock
    /\ executed' = <<>> /\ received' = NoEvent
    /\ UNCHANGED <<audio_buffer, is_processing, task_vars, tool_vars, api_key, main_vars,
                   pure_vars, rest_vars, transport_limit, client_connections, forwarded,
                   credential_rejected, functions, rejected_calls,
                   reconnects_since_close>>

\* ------------------------------------------------ handle_openai_messages
\* client.py 406, 415-438: send_function_result gets its item out
CanDeliver == is_connected /\ CanSend(ws)

\* client.py 425-438: the function_call_output item
ItemCreate(call_id) == <<Up(ws, "conversation.item.create", call_id)>>

\* a create_response_after_function that requests nothing
ResponseCreateSkipped == <<>>

\* client.py 464-499 create_response_after_function: a failed send is swallowed
ResponseCreate ==
    IF is_connected /\ CanSend(ws) THEN <<Up(ws, "response.create", NoCallId)>> ELSE <<>>

\* handler.py 201-203: back at openai_client.recv(), which reads self.ws anew and
\* raises a plain Exception without one (caught at 543: the task ends)
BackToRecv ==
    /\ IF ws = 0
       THEN o_pc' = "done" /\ o_ws' = 0
       ELSE o_pc' = "recv" /\ o_ws' = ws
    /\ ack_received' = (ws # 0 /\ ws = o_ws /\ ack_received)

\* the upstream has an event for recv(): session.created comes first on a transport
Readable ==
    /\ o_pc = "recv" /\ ~o_cancel
    /\ o_ws # 0 /\ transport[o_ws] = "open"

\* what a step of openai_task on an event leaves alone
EventFrame ==
    UNCHANGED <<client_vars, transport, close_calls, session_sent, session_update, opened,
    handler_vars,
                o_cancel, api_key, main_vars, pure_vars, rest_vars, transport_limit,
                registry_vars, forwarded, credential_rejected, functions, client_open,
                reconnects_since_close>>

\* handler.py 203-209: a frame that is not JSON is dropped
EvBadJson ==
    /\ Readable /\ ack_received
    /\ received' = Frame(NotJson)
    /\ last' = "ev_bad_json"
    /\ to_client' = <<>>
    /\ to_upstream' = <<>>
    /\ executed' = <<>>
    /\ BackToRecv
    /\ EventFrame
    /\ UNCHANGED <<tool_vars, o_cont, rejected_calls>>

\* handler.py 230, 265, 285, 337, 364, 510: the first send to a client that has
\* gone raises; the exception ends the task (handler.py 543-545)
EvClientGone ==
    /\ Readable
    /\ ~client_open
    /\ last' = "ev_client_gone"
    /\ to_client' = <<>>
    /\ to_upstream' = <<>>
    /\ executed' = <<>> /\ received' = NoEvent
    /\ o_pc' = "done"
    /\ o_ws' = 0
    /\ ack_received' = FALSE
    /\ EventFrame
    /\ UNCHANGED <<tool_vars, o_cont, rejected_calls>>

\* handler.py 215-240: an upstream error event
EvError(about_item) ==
    /\ Readable /\ ack_received /\ client_open
    /\ received' = Frame("error")
    /\ last' = "ev_error"
    /\ IF waiting_for_function_response /\ about_item
       THEN /\ to_client' = <<Msg("response.content_part.added")>>
            /\ to_upstream' = ResponseCreate
            /\ waiting_for_function_response' = FALSE
       ELSE /\ to_client' = <<Fwd("error")>>
            /\ to_upstream' = <<>>
            /\ UNCHANGED waiting_for_function_response
    /\ executed' = <<>>
    /\ BackToRecv
    /\ EventFrame
    /\ UNCHANGED <<pending_function_call, buffer_calls, last_function_delivery_status,
                   o_cont,
                   rejected_calls>>

\* client.py 135-139: what client.post does: it answers, it raises a
\* httpx.RequestError (a timeout is one), or it raises anything else
HttpOutcomes == {"answered", "RequestError", "Exception"}

\* an exception that leaves execute_function
Raised == "raised"

\* an execute_function without its outer try: what is not a RequestError escapes
execute_function_unguarded(name, arguments, http) ==
    IF name # SendWebhook THEN "error:Unknown function"
    ELSE IF ~Contains(arguments, "url") THEN "error:URL not provided"
    ELSE IF http = "answered" THEN "sent"
    ELSE IF http = "RequestError" THEN "error:RequestError"
    ELSE Raised

\* client.py 109-166 execute_function: the result dict, named by its "error" key
\* ("sent" is the dict without one)
execute_function(name, arguments, http) ==
    IF name # SendWebhook THEN "error:Unknown function"
    ELSE IF ~Contains(arguments, "url") THEN "error:URL not provided"
    ELSE IF http = "answered" THEN "sent"
    ELSE IF http = "RequestError" THEN "error:RequestError"
    ELSE "error:Exception"

\* handler.py 255: the allow-list check
Allowed(normalized_name) == normalized_name \in enabled_functions

\* the calls still refused after an event for call_id that carried this name
RefusedAfter(call_id, normalized_name) ==
    IF call_id = NoCallId THEN rejected_calls
    ELSE IF Allowed(normalized_name) THEN rejected_calls \ {call_id}
    ELSE rejected_calls \cup {call_id}

\* handler.py 245-289: response.function_call.started
EvStarted(function_name, call_id) ==
    /\ Readable /\ ack_received /\ client_open
    /\ received' = Event("function_call.started", function_name, call_id, Absent)
    /\ executed' = <<>>
    /\ LET normalized_name == NormalizedNames[function_name] IN
       /\ rejected_calls' = RefusedAfter(call_id, normalized_name)
       /\ IF ~Allowed(normalized_name)
          THEN /\ last' = "started_rejected"
               /\ to_client' = <<Msg("response.content_part.added")>>
               /\ IF call_id # NoCallId /\ CanDeliver
                  THEN /\ to_upstream' = ItemCreate(call_id)
                       /\ o_pc' = "fr_sleep"
                       /\ o_cont' = "rej_started"
                       /\ UNCHANGED <<o_ws, ack_received>>
                  ELSE /\ to_upstream' = <<>>
                       /\ BackToRecv
                       /\ UNCHANGED o_cont
               /\ UNCHANGED <<pending_function_call, buffer_calls>>
          ELSE /\ last' = "started"
               /\ pending_function_call' =
                     [name |-> normalized_name, call_id |-> call_id,
                      arguments_buffer |-> <<>>]
               /\ buffer_calls' = {}
               /\ to_client' = <<Msg("function_call.started"),
                                 Fwd("function_call.started")>>
               /\ to_upstream' = <<>>
               /\ BackToRecv
               /\ UNCHANGED o_cont
    /\ EventFrame
    /\ UNCHANGED <<waiting_for_function_response, last_function_delivery_status>>

\* handler.py 300: the name guessed from a fragment
InferredName(delta) ==
    IF Contains(delta, "url") \/ Contains(delta, "event") THEN SendWebhook ELSE NoName

\* handler.py 292-305: response.function_call_arguments.delta
EvDelta(delta, call_id) ==
    /\ Readable /\ ack_received /\ client_open
    /\ received' = Event("function_call_arguments.delta", Absent, call_id, delta)
    /\ Len(pending_function_call.arguments_buffer) + Len(delta) <= MaxArgTokens
    /\ last' = "delta"
    /\ pending_function_call' =
          IF pending_function_call.name = NoName /\ call_id # NoCallId
          THEN [name |-> InferredName(delta),
                call_id |-> call_id,
                arguments_buffer |-> pending_function_call.arguments_buffer \o delta]
          ELSE [pending_function_call EXCEPT !.arguments_buffer = @ \o delta]
    /\ buffer_calls' = buffer_calls \cup ({call_id} \ {NoCallId})
    /\ to_client' = <<Fwd("function_call_arguments.delta")>>
    /\ to_upstream' = <<>>
    /\ executed' = <<>>
    /\ BackToRecv
    /\ EventFrame
    /\ UNCHANGED <<waiting_for_function_response, last_function_delivery_status, o_cont,
                   rejected_calls>>

\* handler.py 309: response_data.get("arguments", arguments_buffer)
ArgumentsStr(arguments) ==
    IF arguments = Absent THEN pending_function_call.arguments_buffer ELSE arguments

\* a final name that prefers the name the pending call already has
FinalNamePendingFirst(function_name, arguments) ==
    IF pending_function_call.name # NoName THEN pending_function_call.name
    ELSE IF function_name = Absent THEN NoName
    ELSE function_name

\* handler.py 311, 316-320: the event's function_name, else the pending one, else
\* send_webhook when the arguments hold "url"
FinalName(function_name, arguments) ==
    LET given == IF function_name = Absent THEN pending_function_call.name
                 ELSE function_name
    IN  IF given = NoName /\ ArgumentsStr(arguments) # <<>>
                          /\ Contains(ArgumentsStr(arguments), "url")
        THEN SendWebhook
        ELSE given

\* handler.py 312: response_data.get("call_id", pending call_id)
FinalCallId(call_id) ==
    IF call_id = NoCallId THEN pending_function_call.call_id ELSE call_id

\* handler.py 327: the allow-list check on the final name
RejectedAtDone(normalized_name) == normalized_name # NoName /\ ~Allowed(normalized_name)

\* the calls still refused after a done event: a function_name the event itself
\* carries announces the call anew
RefusedAfterDone(function_name, call_id) ==
    IF function_name \in {Absent, NoName} THEN rejected_calls
    ELSE RefusedAfter(call_id, NormalizedNames[function_name])

\* handler.py 308-437: response.function_call_arguments.done, up to the sleep in
\* send_function_result when a result or a stub goes out
EvDone(function_name, arguments, call_id) ==
    /\ Readable /\ ack_received /\ client_open
    /\ received' = Event("function_call_arguments.done", function_name, call_id,
                       arguments)
    /\ rejected_calls' = RefusedAfterDone(function_name, call_id)
    /\ LET normalized_name == NormalizedNames[FinalName(function_name, arguments)]
           function_call_id == FinalCallId(call_id)
           arguments_str == ArgumentsStr(arguments)
       IN
       IF RejectedAtDone(normalized_name)
       THEN /\ last' = "done_rejected"
            /\ to_client' = <<Msg("response.content_part.added")>>
            /\ executed' = <<>>
            /\ IF function_call_id # NoCallId /\ CanDeliver
               THEN /\ to_upstream' = ItemCreate(function_call_id)
                    /\ o_pc' = "fr_sleep"
                    /\ o_cont' = "rej_done"
                    /\ UNCHANGED <<o_ws, ack_received, pending_function_call, buffer_calls>>
               ELSE /\ to_upstream' = <<>>
                    /\ pending_function_call' = EmptyPending /\ buffer_calls' = {}
                    /\ BackToRecv
                    /\ UNCHANGED o_cont
            /\ UNCHANGED <<waiting_for_function_response, last_function_delivery_status>>
       ELSE IF function_call_id # NoCallId /\ normalized_name # NoName
       THEN IF ~JsonValid(arguments_str)
            THEN \* 417-423: json.loads raised; no result is sent upstream
                 /\ last' = "done_bad_arguments"
                 /\ to_client' = <<Msg("error:function_args_error"),
                                   Fwd("function_call_arguments.done")>>
                 /\ to_upstream' = <<>>
                 /\ executed' = <<>>
                 /\ pending_function_call' = EmptyPending /\ buffer_calls' = {}
                 /\ BackToRecv
                 /\ UNCHANGED <<o_cont, waiting_for_function_response,
                                last_function_delivery_status>>
            ELSE \E http \in HttpOutcomes :
                 LET result == execute_function(normalized_name, arguments_str, http) IN
                 IF result = Raised
                 THEN \* 424-430: execute_function raised; no result is sent upstream
                      /\ last' = "done_execution_error"
                      /\ executed' = <<[name |-> normalized_name,
                                        call_id |-> function_call_id, result |-> result]>>
                      /\ to_client' = <<Msg("function_call.start"),
                                        Msg("error:function_execution_error"),
                                        Fwd("function_call_arguments.done")>>
                      /\ to_upstream' = <<>>
                      /\ pending_function_call' = EmptyPending /\ buffer_calls' = {}
                      /\ BackToRecv
                      /\ UNCHANGED <<o_cont, waiting_for_function_response,
                                     last_function_delivery_status>>
                 ELSE \* 363-387: execute_function, then send_function_result
                      /\ last' = "done_executed"
                      /\ executed' = <<[name |-> normalized_name,
                                        call_id |-> function_call_id, result |-> result]>>
                      /\ IF CanDeliver
                         THEN /\ to_client' = <<Msg("function_call.start")>>
                              /\ to_upstream' = ItemCreate(function_call_id)
                              /\ waiting_for_function_response' = TRUE
                              /\ o_pc' = "fr_sleep"
                              /\ o_cont' = "exec"
                              /\ UNCHANGED <<o_ws, ack_received, pending_function_call,
                                             buffer_calls,
                                             last_function_delivery_status>>
                         ELSE \* 391-415: the result could not be delivered
                              /\ to_client' = <<Msg("function_call.start"),
                                                Msg("response.content_part.added"),
                                                Msg("function_call.completed"),
                                                Fwd("function_call_arguments.done")>>
                              /\ to_upstream' = ResponseCreate
                              /\ waiting_for_function_response' = FALSE
                              /\ last_function_delivery_status' = "failed"
                              /\ pending_function_call' = EmptyPending /\ buffer_calls' = {}
                              /\ BackToRecv
                              /\ UNCHANGED o_cont
       ELSE \* 432-437, 510: no call_id or no name: the call is dropped
            /\ last' = "done_dropped"
            /\ to_client' = <<Fwd("function_call_arguments.done")>>
            /\ to_upstream' = <<>>
            /\ executed' = <<>>
            /\ pending_function_call' = EmptyPending /\ buffer_calls' = {}
            /\ BackToRecv
            /\ UNCHANGED <<o_cont, waiting_for_function_response,
                           last_function_delivery_status>>
    /\ EventFrame

\* client.py 441-453: asyncio.sleep(0.5) returned inside send_function_result;
\* response.create is requested and the caller in handler.py goes on
\* (273-275, 345-353, 387-437 and 510)
SleepReturned ==
    /\ o_pc = "fr_sleep" /\ ~o_cancel
    /\ last' = "sleep_returned"
    /\ to_upstream' = ResponseCreate
    /\ executed' = <<>> /\ received' = NoEvent
    /\ o_cont' = "none"
    /\ IF o_cont = "rej_started"
       THEN /\ to_client' = <<>>
            /\ BackToRecv
            /\ UNCHANGED tool_vars
       ELSE IF o_cont = "rej_done"
       THEN /\ to_client' = <<>>
            /\ pending_function_call' = EmptyPending /\ buffer_calls' = {}
            /\ BackToRecv
            /\ UNCHANGED <<waiting_for_function_response, last_function_delivery_status>>
       ELSE /\ last_function_delivery_status' = "ok"
            /\ IF client_open
               THEN /\ to_client' = <<Msg("function_call.completed"),
                                      Fwd("function_call_arguments.done")>>
                    /\ pending_function_call' = EmptyPending /\ buffer_calls' = {}
                    /\ BackToRecv
               ELSE \* 410, 427: both sends raise; the task ends (543-545)
                    /\ to_client' = <<>>
                    /\ o_pc' = "done"
                    /\ o_ws' = 0
                    /\ ack_received' = FALSE
                    /\ UNCHANGED <<pending_function_call, buffer_calls>>
            /\ UNCHANGED waiting_for_function_response
    /\ UNCHANGED <<client_vars, transport, close_calls, session_sent, session_update, opened,
                   handler_vars, o_cancel,
                   api_key, main_vars, pure_vars, rest_vars, transport_limit,
                   registry_vars, forwarded, credential_rejected, functions,
                   client_open, rejected_calls, reconnects_since_close>>

\* the other upstream events handle_openai_messages passes on
PlainEvents == {"response.content_part.added", "response.output_item.done",
                "response.done", "audio"}

\* handler.py 440-444, 479-507, 513-524: waiting_for_function_response afterwards
\* (openai_client.last_function_name is never set, so 483-504 never runs)
WaitingAfter(type) ==
    IF type \in {"response.content_part.added", "response.done"} THEN FALSE
    ELSE IF type = "response.output_item.done"
              /\ waiting_for_function_response
              /\ last_function_delivery_status # "none"
         THEN FALSE
         ELSE waiting_for_function_response

\* handler.py 510: session.created, the first event of a transport, is passed on
EvSessionCreated ==
    /\ Readable /\ ~ack_received /\ client_open
    /\ received' = Frame("session.created")
    /\ last' = "ev_session_created"
    /\ to_client' = <<Fwd("session.created")>>
    /\ to_upstream' = <<>>
    /\ executed' = <<>>
    /\ IF ws = 0
       THEN o_pc' = "done" /\ o_ws' = 0 /\ ack_received' = FALSE
       ELSE o_pc' = "recv" /\ o_ws' = ws /\ ack_received' = (ws = o_ws)
    /\ EventFrame
    /\ UNCHANGED <<tool_vars, o_cont, rejected_calls>>

\* handler.py 440-524: events passed on to the client; audio goes out as bytes
EvPlain(type) ==
    /\ Readable /\ ack_received /\ client_open
    /\ received' = Frame(type)
    /\ type \in PlainEvents
    /\ last' = "ev_plain"
    /\ to_client' = IF type = "audio" THEN <<Msg("bytes")>> ELSE <<Fwd(type)>>
    /\ to_upstream' = <<>>
    /\ executed' = <<>>
    /\ waiting_for_function_response' = WaitingAfter(type)
    /\ BackToRecv
    /\ EventFrame
    /\ UNCHANGED <<pending_function_call, buffer_calls, last_function_delivery_status,
                   o_cont,
                   rejected_calls>>

\* handler.py 526-529, client.py 283-297: ws.recv() raised ConnectionClosed;
\* reconnect() closes whatever transport self.ws names now
RecvClosed ==
    /\ o_pc = "recv" /\ ~o_cancel
    /\ o_ws # 0 /\ transport[o_ws] \in {"dead", "closed"}
    /\ last' = "recv_closed"
    /\ to_client' = <<>>
    /\ to_upstream' = <<>>
    /\ executed' = <<>> /\ received' = NoEvent
    /\ ReconnectBegins
    /\ o_pc' = ReconnectPc
    /\ o_ws' = 0
    /\ ack_received' = FALSE
    /\ UNCHANGED <<enabled_functions, session_sent, session_update, opened, handler_vars, o_cancel,
                   o_cont, tool_vars, api_key, main_vars, pure_vars, rest_vars,
                   transport_limit, registry_vars, forwarded, credential_rejected, functions,
                   client_open, rejected_calls>>

\* client.py 294-303: ws.close() returned, or a CancelledError thrown into it was
\* caught by the bare except; either way reconnect() goes on to connect()
TaskCloseReturned ==
    /\ o_pc = "rc_close"
    /\ last' = "task_close_returned"
    /\ o_cancel' = FALSE
    /\ ForgetConnection
    /\ o_pc' = "rc_connect"
    /\ to_client' = <<>>
    /\ to_upstream' = <<>>
    /\ executed' = <<>> /\ received' = NoEvent
    /\ UNCHANGED <<enabled_functions, net_vars, handler_vars, o_ws, o_cont, tool_vars,
                   api_key, main_vars, pure_vars, rest_vars, transport_limit,
                   registry_vars, forwarded, credential_rejected, functions, client_open,
                   rejected_calls,
                   reconnects_since_close>>

\* handler.py 529-538: reconnect() returned
TaskConnectReturned(outcome) ==
    /\ o_pc = "rc_connect" /\ ~o_cancel
    /\ last' = IF outcome = "open" THEN "task_connected" ELSE "task_connect_failed"
    /\ ConnectDone(outcome)
    /\ to_upstream' = SessionUpdate(outcome)
    /\ executed' = <<>> /\ received' = NoEvent
    /\ IF outcome = "open"
       THEN /\ to_client' = <<>>
            /\ o_pc' = "recv"
            /\ o_ws' = NewTransport
       ELSE /\ to_client' = ToClient(<<Msg("error:openai_connection_lost")>>)
            /\ o_pc' = "done"
            /\ o_ws' = 0
    /\ UNCHANGED <<ack_received, handler_vars, o_cancel, o_cont, tool_vars,
                   api_key, main_vars, pure_vars, rest_vars, transport_limit,
                   registry_vars, forwarded,
                   functions, client_open, rejected_calls, reconnects_since_close>>

\* handler.py 540-542: CancelledError reaches the task at recv(), at the sleep of
\* send_function_result or inside connect(), and ends it
TaskCancelled ==
    /\ o_cancel
    /\ o_pc \in {"recv", "fr_sleep", "rc_connect"}
    /\ last' = "task_cancelled"
    /\ o_cancel' = FALSE
    /\ o_pc' = "done"
    /\ o_ws' = 0
    /\ o_cont' = "none"
    /\ ack_received' = FALSE
    /\ to_client' = <<>>
    /\ to_upstream' = <<>>
    /\ executed' = <<>> /\ received' = NoEvent
    /\ UNCHANGED <<client_vars, transport, close_calls, session_sent, session_update, opened,
                   handler_vars, tool_vars,
                   api_key, main_vars, pure_vars, rest_vars, transport_limit,
                   registry_vars, forwarded, credential_rejected, functions,
                   client_open, rejected_calls, reconnects_since_close>>

\* the endpoint drops an open transport
RemoteClose(t) ==
    /\ transport[t] = "open"
    /\ transport' = [transport EXCEPT ![t] = "dead"]
    /\ reconnects_since_close' = 0
    /\ last' = "remote_close"
    /\ to_client' = <<>>
    /\ to_upstream' = <<>>
    /\ executed' = <<>> /\ received' = NoEvent
    /\ UNCHANGED <<client_vars, close_calls, session_sent, session_update, ack_received, opened,
                   handler_vars, task_vars, tool_vars,
                   api_key, main_vars, pure_vars, rest_vars, transport_limit,
                   registry_vars, forwarded, credential_rejected,
                   functions, client_open, rejected_calls>>

\* --------------------------------------------------------- specification
EventCallIds == CallIds \cup {NoCallId}

\* the connection's life: set-up, closures, reconnects, teardown
Lifecycle ==
    \/ \E outcome \in Outcomes : Start(outcome)
    \/ ClientGone
    \/ ClientLoopBreak
    \/ HandlerFinally
    \/ EvSessionCreated
    \/ EvClientGone
    \/ RecvClosed
    \/ TaskCloseReturned
    \/ \E outcome \in Outcomes : TaskConnectReturned(outcome)
    \/ TaskCancelled
    \/ \E t \in Transports : RemoteClose(t)

\* the frames of the client
ClientFrames ==
    \/ ClientPing
    \/ \E n \in ChunkSizes : ClientAppend(n)
    \/ \E n \in ChunkSizes : ClientBinary(n)
    \/ CommitShort
    \/ CommitConnected
    \/ CommitReconnect
    \/ HandlerCloseReturned
    \/ \E outcome \in Outcomes : HandlerConnectReturned(outcome)
    \/ ClientClear
    \/ ClientCancel
    \/ ClientUnknown
    \/ ClientBadFrame

\* the upstream events that are passed on
PassedEvents ==
    \/ EvBadJson
    \/ \E type \in PlainEvents : EvPlain(type)

\* the upstream events of a tool call
ToolEvents ==
    \/ \E about_item \in BOOLEAN : EvError(about_item)
    \/ \E n \in EventNames, c \in EventCallIds : EvStarted(n, c)
    \/ \E d \in Fragments, c \in EventCallIds : EvDelta(d, c)
    \/ \E n \in EventNames \cup {Absent}, a \in ArgumentTexts \cup {Absent},
          c \in EventCallIds : EvDone(n, a, c)
    \/ SleepReturned

\* Every step of the relay.  The properties are checked under SpecGate and
\* SpecTools below, which each leave one side's inputs out: client frames and
\* tool-call events act on disjoint state (the audio gate on one side,
\* pending_function_call and its flags on the other) and meet only in the
\* connection, which both keep whole.
Next == Lifecycle \/ ClientFrames \/ PassedEvents \/ ToolEvents

Spec == Init /\ [][Next]_vars

\* The relay under a client that sends frames while the upstream makes no tool
\* call, with the function list handler.py configures ([])
InitGate == Init /\ functions = <<>> /\ call = NoCall /\ transport_limit = MaxTransports

NextGate == Lifecycle \/ ClientFrames \/ PassedEvents

SpecGate == InitGate /\ [][NextGate]_vars

\* The relay under an upstream that makes tool calls while the client sends no
\* frame, with an API key configured, over a client of either configuration
\* (handle_openai_messages takes the client as a parameter)
InitTools == Init /\ api_key /\ functions \in FunctionConfigs /\
             call = NoCall /\ transport_limit = MaxTransports

NextTools == Lifecycle \/ PassedEvents \/ ToolEvents

SpecTools == InitTools /\ [][NextTools]_vars

\* The tool calls of one upstream connection that stays up: the handling of the
\* started, delta and done events by themselves
InitCalls == Init /\ api_key /\ functions \in FunctionConfigs /\
             call = NoCall /\ transport_limit = MaxTransports

NextCalls ==
    \/ \E outcome \in Outcomes : Start(outcome)
    \/ EvSessionCreated
    \/ PassedEvents
    \/ ToolEvents

SpecCalls == InitCalls /\ [][NextCalls]_vars

\* ------------------------------------------------------------ properties
HasType(msgs, type) == \E i \in 1..Len(msgs) : msgs[i].type = type

CommitSteps == {"commit_short", "commit", "commit_reconnect"}

FrameSteps == CommitSteps \cup {"ping", "append", "binary", "clear", "cancel", "unknown"}

RejectionSteps == {"started_rejected", "done_rejected"}

ConnectedSteps == {"start", "handler_connected", "task_connected"}

Warning == Msg("warning:audio_buffer_too_small")

CommitAck == Msg("input_audio_buffer.commit.ack")

Explanation == Msg("response.content_part.added")

\* session.created has been read on transport t
AckConsumed(t) == t # 0 /\ o_ws = t /\ ack_received

\* C1: execute_function is never called for a call that was refused at its
\* started event and not announced under an allowed name since.
C1_RefusedCallNeverExecuted ==
    \A i \in 1..Len(executed) : executed[i].call_id \notin rejected_calls

\* C2: every rejection of a call sends the stub result upstream and the
\* explanation to the client, with or without a call_id.
C2_RejectionSendsStubAndExplanation ==
    last \in RejectionSteps =>
        /\ HasType(to_upstream, "conversation.item.create")
        /\ to_client = <<Explanation>>

\* C3: a commit of a buffer shorter than the minimum sends the warning to the
\* client and nothing upstream, starts no reconnect, touches no transport and
\* leaves the buffer empty.
C3_ShortCommitOnlyWarns ==
    [][ (Receiving /\ audio_buffer < MinCommitBytes /\ last' \in CommitSteps)
        => /\ last' = "commit_short"
           /\ to_client' = <<Warning>>
           /\ to_upstream' = <<>>
           /\ audio_buffer' = 0
           /\ c_pc' = "loop"
           /\ UNCHANGED <<ws, is_connected, transport, reconnects_since_close>> ]_vars

\* C3 witness: a short commit was answered while the upstream was down
C3_Witness ==
    /\ last = "commit_short"
    /\ to_client = <<Warning>>
    /\ ~is_connected
    /\ c_pc = "loop"

\* C4: the commit acknowledgement goes to the client only in a step that
\* sent the commit upstream.
C4_AckOnlyAfterCommitSent ==
    (\E i \in 1..Len(to_client) : to_client[i] = CommitAck)
        => HasType(to_upstream, "input_audio_buffer.commit")

\* C5: reconnect() is called at most once for one upstream closure, the two
\* loops counted together.
C5_OneReconnectPerClosure == reconnects_since_close <= 1

\* C6: no client frame is handled once openai_task has ended.
C6_NoFrameAfterTaskEnded == last \in FrameSteps => o_pc # "done"

\* C7: once the handler has returned no transport is open and openai_task is
\* neither reading nor reconnecting.
C7_NothingLeftAfterTeardown ==
    c_pc = "returned" =>
        /\ \A t \in Transports : transport[t] # "open"
        /\ o_pc \in {"unborn", "done"}

\* C8: however often close() is called, it calls ws.close() on a transport at
\* most once.
C8_CloseClosesOnce == \A t \in Transports : close_calls[t] <= 1

C10_ReconnectDiscardsPending ==
    last \in {"task_connected", "task_connect_failed"}
        => pending_function_call = EmptyPending

\* C11: once a connect() has failed on a rejected credential, reconnect() is
\* not called again, by either loop.
C11_NoReconnectAfterCredentialRejected ==
    last \in {"commit_reconnect", "recv_closed"} => ~credential_rejected

\* C12: every input_audio_buffer.clear and every response.cancel frame is
\* answered with its acknowledgement and leaves the client loop running.
C12_ClearAndCancelAlwaysAcked ==
    /\ last = "clear" =>
          to_client = <<Msg("input_audio_buffer.clear.ack")>> /\ c_pc = "loop"
    /\ last = "cancel" =>
          to_client = <<Msg("response.cancel.ack")>> /\ c_pc = "loop"

\* C13: a client frame that is not JSON, or whose audio cannot be decoded, is
\* dropped: the client loop is still running after it and the relay is not
\* torn down.
C13_BadClientFrameDropped ==
    last = "bad_frame" => (c_pc = "loop" /\ ~o_cancel /\ client_open)

\* ---------------------------------------------------------------- main.py
\* main.py serves /ws with a relay of its own, which passes raw frames between
\* the client and the upstream: websocket_endpoint opens the upstream
\* connection and starts forward_client_to_openai and forward_openai_to_client;
\* c_pc and o_pc are where these two tasks stand, ws is
\* client_connections[client_id]["openai_ws"].

\* the frames of the client main.py passes on as they are
ClientMessages == {"input_audio_buffer.append", "input_audio_buffer.commit",
                   "response.create", "session.update"}

\* main.py 495-500, 514-527: the frames that ask for another available voice,
\* as change_voice or as a session.update that names a voice
VoiceChanges == {"change_voice", "session.update:voice"}

\* main.py 501-510: change_voice for a voice that is not available
VoiceUnavailable == "change_voice:unavailable"

\* the text frames of the upstream main.py passes on as they are
OpenaiMessages == {"session.created", "response.audio.delta", "response.done", "error"}

\* what a step of main.py leaves alone: the state of handler.py and client.py
MainFrame ==
    /\ executed' = <<>>
    /\ UNCHANGED <<is_connected, enabled_functions, close_calls, ack_received,
                   audio_buffer, is_processing, o_cancel, o_cont, tool_vars, api_key,
                   functions, rejected_calls, credential_rejected,
                   reconnects_since_close, pure_vars, rest_vars, transport_limit,
                   active_connections, forwarded>>

\* ... and the connection and the other task besides
TaskFrame ==
    /\ MainFrame
    /\ UNCHANGED <<ws, transport, session_sent, session_update, opened, client_open, o_ws,
                   client_connections>>

\* main.py 276-339 websocket_endpoint up to asyncio.wait: the connection is
\* made and session.update sent, then both tasks are created; a failure of
\* either is reported to the client and the endpoint runs its finally block
\* (341-364)
websocket_endpoint(outcome) ==
    /\ received' = NoEvent
    /\ c_pc = "init"
    /\ outcome \in ConnectOutcomes
    /\ IF outcome = "open"
       THEN /\ last' = "endpoint_started"
            /\ transport' = [transport EXCEPT ![NewTransport] = "open"]
            /\ opened' = NewTransport
            /\ ws' = NewTransport
            /\ session_sent' = session_sent \cup {NewTransport}
            /\ UNCHANGED session_update
            /\ to_upstream' = <<Up(NewTransport, "session.update", NoCallId)>>
            /\ to_client' = <<>>
            /\ c_pc' = "forward"
            /\ o_pc' = "forward"
            /\ o_ws' = NewTransport
            /\ running' = [client_to_openai |-> 1, openai_to_client |-> 1]
            /\ client_connections' = client_connections \cup {ClientId}
       ELSE /\ last' = "endpoint_failed"
            /\ client_connections' = (client_connections \cup {ClientId}) \ {ClientId}
            /\ IF outcome = "dead"
               THEN /\ transport' = ClosedTransport(transport, NewTransport)
                    /\ opened' = NewTransport
               ELSE UNCHANGED <<transport, opened>>
            /\ to_upstream' = <<>>
            /\ to_client' = ToClient(<<Msg("error")>>)
            /\ c_pc' = "closed"
            /\ o_pc' = "done"
            /\ UNCHANGED <<ws, session_sent, session_update, o_ws, running>>
    /\ MainFrame
    /\ UNCHANGED <<client_open, reconnecting>>

\* main.py 370-392 recreate_openai_connection up to its first await that
\* suspends: the flag is set, the client is told (a failed send is logged) and
\* the close of the current connection is awaited
RecreateBegins ==
    /\ reconnecting' = TRUE
    /\ to_client' = ToClient(<<Msg("recreating_connection")>>)
    /\ to_upstream' = <<>>

\* main.py 472-537 forward_client_to_openai on one text frame: an empty frame
\* is skipped, any frame is ignored while the connection is being recreated, a
\* frame that is not JSON is logged and dropped, a change of voice recreates
\* the connection or is refused, and any other frame is sent upstream as it is;
\* a send that raises is logged (535-537)
forward_client_to_openai(message) ==
    /\ received' = Frame(message)
    /\ c_pc = "forward" /\ client_open
    /\ IF message = ""
       THEN /\ last' = "client_empty"
            /\ to_upstream' = <<>> /\ to_client' = <<>>
            /\ UNCHANGED <<c_pc, reconnecting>>
       ELSE IF reconnecting
       THEN /\ last' = "client_ignored"
            /\ to_upstream' = <<>> /\ to_client' = <<>>
            /\ UNCHANGED <<c_pc, reconnecting>>
       ELSE IF message = NotJson
       THEN /\ last' = "client_bad_json"
            /\ to_upstream' = <<>> /\ to_client' = <<>>
            /\ UNCHANGED <<c_pc, reconnecting>>
       ELSE IF message \in VoiceChanges
       THEN /\ last' = "client_change_voice"
            /\ RecreateBegins
            /\ c_pc' = "recreate_close"
       ELSE IF message = VoiceUnavailable
       THEN /\ last' = "client_voice_unavailable"
            /\ to_upstream' = <<>>
            /\ to_client' = <<Msg("voice_changed")>>
            /\ UNCHANGED <<c_pc, reconnecting>>
       ELSE /\ last' = "client_forwarded"
            /\ to_upstream' = IF CanSend(o_ws) THEN <<Up(o_ws, message, NoCallId)>>
                                               ELSE <<>>
            /\ to_client' = <<>>
            /\ UNCHANGED <<c_pc, reconnecting>>
    /\ TaskFrame
    /\ UNCHANGED <<o_pc, running>>

\* the client of main.py closes its websocket
ClientLeft ==
    /\ received' = NoEvent
    /\ c_pc \in {"forward", "recreate_close", "done"}
    /\ client_open
    /\ client_open' = FALSE
    /\ last' = "client_left"
    /\ to_client' = <<>>
    /\ to_upstream' = <<>>
    /\ MainFrame
    /\ UNCHANGED <<ws, transport, session_sent, session_update, opened, c_pc, o_pc, o_ws,
                   main_vars, pure_vars, rest_vars, transport_limit, client_connections>>

\* main.py 474-478: receive_text raises WebSocketDisconnect; the task ends
ClientDisconnected ==
    /\ received' = NoEvent
    /\ c_pc = "forward" /\ ~client_open
    /\ c_pc' = "done"
    /\ running' = [running EXCEPT !.client_to_openai = @ - 1]
    /\ last' = "client_disconnected"
    /\ to_client' = <<>>
    /\ to_upstream' = <<>>
    /\ TaskFrame
    /\ UNCHANGED <<o_pc, reconnecting>>

\* the upstream has a frame for forward_openai_to_client
Iterating == o_pc = "forward" /\ o_ws # 0 /\ transport[o_ws] = "open"

\* main.py 562-567: session.created during a recreation is announced
SessionReady(message) ==
    IF message = "session.created" /\ reconnecting THEN <<Msg("session_ready")>> ELSE <<>>

\* main.py 547-597 forward_openai_to_client on a text frame that is JSON: an
\* error about the voice recreates the connection (575-584), the "buffer too
\* small" error becomes a buffer_error notice (586-592), any other frame is
\* sent to the client as it is (595); a send that raises is logged (606-607)
forward_openai_to_client(message, error_msg) ==
    /\ received' = Frame(message)
    /\ Iterating
    /\ (error_msg # "") => message = "error"
    /\ IF error_msg = "voice"
       THEN /\ last' = "openai_voice_error"
            /\ RecreateBegins
            /\ o_pc' = "recreate_close"
       ELSE /\ last' = IF error_msg = "buffer too small" THEN "openai_buffer_error"
                                                         ELSE "openai_forwarded"
            /\ to_client' = ToClient(IF error_msg = "buffer too small"
                                     THEN <<Msg("buffer_error")>>
                                     ELSE SessionReady(message) \o <<Fwd(message)>>)
            /\ to_upstream' = <<>>
            /\ UNCHANGED <<o_pc, reconnecting>>
    /\ TaskFrame
    /\ UNCHANGED <<c_pc, running>>

\* main.py 596-598: a binary frame is sent to the client as it is
OpenaiBytes ==
    /\ received' = Frame("bytes")
    /\ Iterating
    /\ last' = "openai_bytes"
    /\ to_client' = ToClient(<<Fwd("bytes")>>)
    /\ to_upstream' = <<>>
    /\ TaskFrame
    /\ UNCHANGED <<c_pc, o_pc, main_vars, pure_vars, rest_vars, transport_limit,
                   client_connections>>

\* main.py 554, 600-605: json.loads raises on a text frame that is not JSON;
\* the handler logs it and sends the frame to the client all the same.  That
\* send is outside the inner try, so with the client gone it ends the task
\* (622-625).
OpenaiBadJson ==
    /\ received' = Frame(NotJson)
    /\ Iterating
    /\ last' = "openai_bad_json"
    /\ to_client' = ToClient(<<Fwd(NotJson)>>)
    /\ o_pc' = IF client_open THEN "forward" ELSE "done"
    /\ running' = IF client_open THEN running
                                 ELSE [running EXCEPT !.openai_to_client = @ - 1]
    /\ to_upstream' = <<>>
    /\ TaskFrame
    /\ UNCHANGED <<c_pc, reconnecting>>

\* main.py 547, 609-621: the upstream connection is closed; the iteration ends,
\* silently after a normal closure, with an error notice to the client after
\* any other
OpenaiClosed(normal) ==
    /\ received' = NoEvent
    /\ o_pc = "forward"
    /\ o_ws # 0 /\ transport[o_ws] \in {"dead", "closed"}
    /\ o_pc' = "done"
    /\ running' = [running EXCEPT !.openai_to_client = @ - 1]
    /\ last' = "openai_closed"
    /\ to_client' = IF normal THEN <<>> ELSE ToClient(<<Msg("error")>>)
    /\ to_upstream' = <<>>
    /\ TaskFrame
    /\ UNCHANGED <<c_pc, reconnecting>>

\* a cancellation that spares the task recreate_openai_connection runs in
CancelledButCaller(task) ==
    {t \in {"client", "openai"} :
        t # task /\ (IF t = "client" THEN c_pc # "done" ELSE o_pc # "done")}

\* main.py 395-398: the tasks recreate_openai_connection cancels are all the
\* tasks of the client that are not done, the one it runs in among them
Cancelled(task) ==
    {t \in {"client", "openai"} : IF t = "client" THEN c_pc # "done" ELSE o_pc # "done"}

\* main.py 392-436: the close awaited by recreate_openai_connection returned
\* and the tasks are cancelled.  The next await, asyncio.sleep(1.0), raises
\* CancelledError in a cancelled caller; no except clause of
\* recreate_openai_connection or of the task catches it, so the task ends there
\* with the flag still set.  A caller that is not cancelled goes on: it opens a
\* connection, sends session.update, creates two new tasks, resets the flag,
\* tells the client and returns into its own loop.
RecreateCloseReturned(task) ==
    /\ received' = NoEvent
    /\ task \in {"client", "openai"}
    /\ IF task = "client" THEN c_pc = "recreate_close" ELSE o_pc = "recreate_close"
    /\ LET cancelled == Cancelled(task) IN
       IF task \in cancelled
       THEN /\ transport' = ClosedTransport(transport, ws)
            /\ c_pc' = "done"
            /\ o_pc' = "done"
            /\ running' = NoTasks
            /\ last' = "recreate_cancelled"
            /\ to_client' = <<>>
            /\ to_upstream' = <<>>
            /\ UNCHANGED <<ws, session_sent, session_update, opened, o_ws, reconnecting>>
       ELSE /\ opened < transport_limit
            /\ transport' = [ClosedTransport(transport, ws) EXCEPT ![NewTransport] = "open"]
            /\ opened' = NewTransport
            /\ ws' = NewTransport
            /\ session_sent' = session_sent \cup {NewTransport}
            /\ UNCHANGED session_update
            /\ c_pc' = "forward"
            /\ o_pc' = "forward"
            /\ o_ws' = NewTransport
            /\ running' =
                 [client_to_openai |->
                      1 + (IF "client" \in cancelled THEN 0 ELSE running.client_to_openai),
                  openai_to_client |->
                      1 + (IF "openai" \in cancelled THEN 0 ELSE running.openai_to_client)]
            /\ reconnecting' = FALSE
            /\ last' = "recreate_done"
            /\ to_client' = ToClient(<<Msg("voice_changed")>>)
            /\ to_upstream' = <<Up(NewTransport, "session.update", NoCallId)>>
    /\ MainFrame
    /\ UNCHANGED <<client_open, client_connections>>

\* main.py 318-364: asyncio.wait returns once either task is done; the other
\* is cancelled and the finally block closes the upstream connection and
\* forgets the client
EndpointFinally ==
    /\ received' = NoEvent
    /\ c_pc \in {"forward", "recreate_close", "done"}
    /\ c_pc = "done" \/ o_pc = "done"
    /\ transport' = ClosedTransport(transport, ws)
    /\ ws' = 0
    /\ c_pc' = "closed"
    /\ o_pc' = "done"
    /\ o_ws' = 0
    /\ running' = NoTasks
    /\ last' = "endpoint_finally"
    /\ client_connections' = client_connections \ {ClientId}
    /\ to_client' = <<>>
    /\ to_upstream' = <<>>
    /\ MainFrame
    /\ UNCHANGED <<session_sent, session_update, opened, client_open, reconnecting>>

\* the relay of main.py
InitMain == Init /\ api_key /\ functions = <<>> /\ call = NoCall /\ transport_limit = MaxTransports

NextMain ==
    \/ \E outcome \in Outcomes : websocket_endpoint(outcome)
    \/ \E message \in ClientMessages \cup VoiceChanges \cup {"", NotJson, VoiceUnavailable} :
          forward_client_to_openai(message)
    \/ ClientLeft
    \/ ClientDisconnected
    \/ \E message \in OpenaiMessages, error_msg \in {"", "voice", "buffer too small"} :
          forward_openai_to_client(message, error_msg)
    \/ OpenaiBytes
    \/ OpenaiBadJson
    \/ \E normal \in BOOLEAN : OpenaiClosed(normal)
    \/ \E task \in {"client", "openai"} : RecreateCloseReturned(task)
    \/ EndpointFinally
    \/ \E t \in Transports : RemoteClose(t)

SpecMain == InitMain /\ [][NextMain]_vars

\* C14: a frame of the upstream that is not JSON is dropped: the step that read
\* it sends nothing to the client and the upstream-to-client loop goes on.
C14_BadUpstreamFrameDropped ==
    /\ last \in {"ev_bad_json", "openai_bad_json"} => to_client = <<>>
    /\ last = "openai_bad_json" => o_pc = "forward"

\* C15: when the arguments of an allowed call that has a call_id fail to parse
\* at arguments.done, an error result is still delivered upstream for that
\* call, and the loop survives.
C15_BadArgumentsStillAnswered ==
    last = "done_bad_arguments" =>
        /\ HasType(to_upstream, "conversation.item.create")
        /\ o_pc \in {"recv", "fr_sleep"}

\* The tool-call relay with its timers and cancellations running: the sleep of
\* send_function_result returns (client.py 442), a CancelledError is delivered
\* to the task, and handle_websocket_connection leaves its asyncio.sleep(0)
\* (handler.py 163) for the finally block.
SpecToolsFair ==
    /\ SpecTools
    /\ WF_vars(SleepReturned)
    /\ WF_vars(TaskCancelled)
    /\ WF_vars(HandlerFinally)

\* the step just taken sent a message of this type upstream on transport t
SentOn(t, type) ==
    \E i \in 1..Len(to_upstream) : to_upstream[i].type = type /\ to_upstream[i].t = t

ResultIn(msgs, call_id) ==
    \E i \in 1..Len(msgs) :
        msgs[i].type = "conversation.item.create" /\ msgs[i].call_id = call_id

\* C17: whatever fails inside execute_function, and whatever it is called with,
\* it returns a result, which send_function_result delivers upstream when the
\* connection is up; the loop goes on to the sleep of send_function_result.
C17_ExecutorFailureDelivered ==
    [][(executed' # <<>> /\ CanDeliver) =>
          /\ executed'[1].result # Raised
          /\ ResultIn(to_upstream', executed'[1].call_id)
          /\ o_pc' = "fr_sleep"]_vars

C17_Witness ==
    /\ last = "done_executed"
    /\ executed[1].result \in {"error:RequestError", "error:Exception",
                               "error:URL not provided"}
    /\ ResultIn(to_upstream, executed[1].call_id)

\* the steps that handle response.function_call_arguments.done
DoneSteps == {"done_rejected", "done_bad_arguments", "done_execution_error",
              "done_executed", "done_dropped"}

\* C18: a call whose arguments.done event supplies a name is checked against the
\* allow-list and dispatched under that name, normalized, whatever name the
\* fragments had suggested before.
C18_DoneNameDecides ==
    (last \in DoneSteps /\ received.function_name \notin {Absent, NoName}) =>
        LET normalized_name == NormalizedNames[received.function_name] IN
        /\ last = "done_rejected" <=> normalized_name \notin enabled_functions
        /\ executed # <<>> => executed[1].name = normalized_name

C18_Witness ==
    /\ last = "done_rejected"
    /\ received.function_name = DeleteAll
    /\ pending_function_call.name = SendWebhook
    /\ pending_function_call.arguments_buffer # <<>>
    /\ SendWebhook \in enabled_functions

\* the steps that parse the argument text (handler.py 361)
ParseSteps == {"done_bad_arguments", "done_execution_error", "done_executed"}

\* C19: the argument text parsed at arguments.done out of the buffer holds the
\* fragments received for that call and no fragment received under another
\* call_id.
C19_ParsedTextIsOwnFragments ==
    [][(last' \in ParseSteps /\ received'.arguments = Absent) =>
          buffer_calls \subseteq {FinalCallId(received'.call_id)}]_vars

\* the frames of the client handler.py passes upstream
ClientTypes == {"input_audio_buffer.append", "input_audio_buffer.commit",
                "input_audio_buffer.clear", "response.cancel"}

\* what the step just taken passed on, in each direction
ForwardedDown == SelectSeq(to_client, LAMBDA m : m.fwd)

ForwardedUp ==
    SelectSeq(to_upstream, LAMBDA m : m.type \in ClientTypes \/ last = "client_forwarded")

\* the frame the step just taken had in hand: the one it read or, where it
\* completes a handler that was suspended, the one that handler had read
InHand ==
    IF last = "sleep_returned" THEN "function_call_arguments.done"
    ELSE IF last = "handler_connected" THEN "input_audio_buffer.commit"
    ELSE received.type

\* C20: in each direction a message is passed on by the step that read it (or
\* by the completion of that step's handler, before the same loop reads again),
\* one message at a time: nothing is held back, reordered or batched, however
\* the two loops interleave.
C20_ForwardedInReceiptOrder ==
    /\ Len(ForwardedDown) <= 1
    /\ Len(ForwardedUp) <= 1
    /\ \A i \in 1..Len(ForwardedDown) : ForwardedDown[i].type = InHand
    /\ \A i \in 1..Len(ForwardedUp) : ForwardedUp[i].type = InHand

C20_Witness ==
    /\ last = "ev_plain"
    /\ ForwardedDown = <<Fwd(received.type)>>
    /\ audio_buffer > 0

\* the error and warning events the relay itself makes for the client
Notices == {"error:no_api_key", "error:openai_connection_failed",
            "error:openai_connection_lost", "error:openai_not_connected",
            "error:unknown_message_type", "error:function_args_error",
            "error:function_execution_error", "warning:audio_buffer_too_small"}

\* handler.py 154-158: the step leaves the client loop
ClientLoopEnds == c_pc = "loop" /\ c_pc' \in {"sleep0", "returned"}

\* handler.py 538-545: the step ends openai_task, and not by the cancellation the
\* end of the client loop requests
TaskEnds == o_pc \notin {"unborn", "done"} /\ o_pc' = "done" /\ ~o_cancel

\* C21: a step that ends the client loop or the upstream loop while the client is
\* still connected sends the client an error or a warning event
C21_NoSilentLoopEnd ==
    [][(client_open /\ (ClientLoopEnds \/ TaskEnds)) =>
          \E i \in 1..Len(to_client') : to_client'[i].type \in Notices]_vars

\* the relay of main.py with its scheduling: an awaited close returns, and
\* asyncio.wait returns once a task is done
SpecMainFair ==
    /\ SpecMain
    /\ WF_vars(\E task \in {"client", "openai"} : RecreateCloseReturned(task))
    /\ WF_vars(EndpointFinally)

\* main.py 407-436: the session has been replaced: the flag is back to False and
\* both loops run against an open connection that was sent session.update
Replaced ==
    /\ ~reconnecting
    /\ c_pc = "forward" /\ o_pc = "forward"
    /\ CanSend(ws) /\ ws \in session_sent /\ o_ws = ws

\* C22: a change of voice asked by the client leads to a replaced session (new
\* upstream connection with session.update, both loops running on it, the
\* reconnecting flag back to False) with the client still connected, unless the
\* client leaves meanwhile
C22_VoiceChangeCompletes ==
    (last = "client_change_voice") ~> ((Replaced /\ client_open) \/ ~client_open)

\* C23: for a client of main.py at most one client-to-upstream task and at most
\* one upstream-to-client task are created and not done at any moment, exactly
\* one of each once the endpoint has started them, and none once
\* recreate_openai_connection has cancelled them
C23_OneLoopPerDirection ==
    /\ running.client_to_openai <= 1 /\ running.openai_to_client <= 1
    /\ last = "endpoint_started" => running = [client_to_openai |-> 1, openai_to_client |-> 1]
    /\ last = "recreate_cancelled" => running = NoTasks

\* a recreation has cancelled the tasks of a client that is still connected
C23_Witness ==
    /\ last = "recreate_cancelled" /\ reconnecting /\ client_open
    /\ running = NoTasks /\ transport[ws] = "closed"

\* C24: the local audio buffer is empty right after the client loop has handled
\* an input_audio_buffer.clear, a commit that was accepted, or a response.cancel
C24_BufferEmptyAfterClearCommitCancel ==
    last \in {"clear", "commit", "handler_connected", "cancel"} => audio_buffer = 0

\* config.py 20-22: the configured audio format
AUDIO_SAMPLE_RATE == 24000
AUDIO_CHANNELS == 1
AUDIO_SAMPLE_WIDTH == 2

\* the bytes of 100 ms of audio in that format
HundredMsBytes == (AUDIO_SAMPLE_RATE * AUDIO_CHANNELS * AUDIO_SAMPLE_WIDTH) \div 10

\* C25: a commit the client loop takes up is refused exactly when the buffer
\* holds less than 100 ms of audio in the configured format (4800 bytes)
C25_CommitRefusedBelow100ms ==
    [][(last' \in {"commit_short", "commit", "commit_reconnect"}) =>
          (last' = "commit_short" <=> audio_buffer < HundredMsBytes)]_vars

\* C26: the warning a refused commit sends to the client has the code
\* "audio_too_short"
C26_WarningCodeAudioTooShort ==
    last = "commit_short" => to_client = <<Msg("warning:audio_too_short")>>

\* ------------------------------------------------ the functions by themselves
\* what the application of a function leaves alone
PureFrame ==
    UNCHANGED <<client_vars, net_vars, handler_vars, task_vars, tool_vars, env_vars,
                out_vars, main_vars, call, registry_vars, forwarded, rest_vars, transport_limit>>

\* client.py 19-33: normalize_function_name is applied to the name
Normalize ==
    /\ call.fn = "normalize_function_name" /\ ~ret.done
    /\ ret' = Returned(normalize_function_name(call.arg))
    /\ PureFrame

\* normalize_function_name on any name, next to the started events of one call on
\* a connection of handle_openai_messages
InitNames ==
    /\ Init /\ api_key /\ functions = <<SendWebhookSpoken>>
    /\ call.fn = "normalize_function_name"
    /\ transport_limit = MaxTransports

NextNames ==
    \/ Normalize
    \/ \E outcome \in Outcomes : Start(outcome)
    \/ EvSessionCreated
    \/ \E function_name \in EventNames : EvStarted(function_name, "c1")
    \/ SleepReturned

SpecNames == InitNames /\ [][NextNames]_vars

\* the text between the first and the last character that is not whitespace
Trimmed(s) ==
    LET solid == {i \in 1..Len(s) : ~IsSpace(s[i])} IN
    IF solid = {} THEN <<>>
    ELSE SubSeq(s, CHOOSE i \in solid : \A j \in solid : i <= j,
                   CHOOSE i \in solid : \A j \in solid : j <= i)

\* the positions of s that leave a character: the letters, digits and
\* underscores, and the last character of each run of hyphens and whitespace
KeptPositions(s) ==
    {i \in 1..Len(s) :
        \/ IsWordChar(s[i])
        \/ IsSep(s[i]) /\ (i = Len(s) \/ ~IsSep(s[i + 1]))}

\* s case-folded, each run of hyphens and whitespace made one underscore, every
\* other character that is no letter, digit or underscore left out
Folded(s) ==
    LET kept == KeptPositions(s)
        nth(k) == CHOOSE i \in kept : Cardinality({j \in kept : j <= i}) = k
    IN  [k \in 1..Cardinality(kept) |->
            IF IsSep(s[nth(k)]) THEN "_" ELSE LowerChar(s[nth(k)])]

\* handler.py 252-255: the started event was let through exactly when name, or
\* the event's own name where name is None, is in the allow-list
ComparedOn(name) ==
    (last \in {"started", "started_rejected"}) =>
        (last = "started" <=>
            (IF name # <<>> THEN name ELSE received.function_name) \in enabled_functions)

\* C27 as stated: normalize_function_name returns the name case-folded, with
\* every run of whitespace and hyphens made one underscore and every other
\* character that is no letter, digit or underscore left out (None for an empty
\* result), and the allow-list comparison of a started event is made on that name
C27_NormalizedEveryRun ==
    /\ (call.fn = "normalize_function_name" /\ ret.done) => ret.value = Folded(call.arg)
    /\ ComparedOn(Folded(received.function_name))

\* C27: normalize_function_name returns the name without its leading and
\* trailing whitespace, case-folded, with every remaining run of whitespace and
\* hyphens made one underscore and every other character that is no letter,
\* digit or underscore left out (None for an empty input or an empty result);
\* "Send Webhook!" gives "send_webhook"; the allow-list comparison of a started
\* event is made on that name
C27_NormalizedTrimmedName ==
    /\ (call.fn = "normalize_function_name" /\ ret.done) =>
          /\ ret.value = Folded(Trimmed(call.arg))
          /\ call.arg = SendWebhookSpoken => ret.value = SendWebhook
    /\ ComparedOn(Folded(Trimmed(received.function_name)))

\* "Send Webhook!" was normalized, and a started event under that spelling was
\* let through
C27_Witness ==
    /\ call.arg = SendWebhookSpoken /\ ret = Returned(SendWebhook)
    /\ last = "started" /\ received.function_name = SendWebhookSpoken
    /\ pending_function_call.name = SendWebhook

\* ---------------------------------------------------------------- base64
\* the base64 alphabet of base64.b64encode; "=" pads the last group
Base64Chars ==
    <<"A","B","C","D","E","F","G","H","I","J","K","L","M","N","O","P",
      "Q","R","S","T","U","V","W","X","Y","Z","a","b","c","d","e","f",
      "g","h","i","j","k","l","m","n","o","p","q","r","s","t","u","v",
      "w","x","y","z","0","1","2","3","4","5","6","7","8","9","+","/">>

\* the character of a 6-bit value, and the 6-bit value of a character
Base64Char(v) == Base64Chars[v + 1]

Base64Value(c) == (CHOOSE i \in 1..64 : Base64Chars[i] = c) - 1

\* base64.b64encode: each group of three bytes becomes four characters, a last
\* group of one or two bytes is padded with "="
RECURSIVE b64encode(_)
b64encode(b) ==
    IF Len(b) = 0 THEN <<>>
    ELSE IF Len(b) = 1
    THEN <<Base64Char(b[1] \div 4), Base64Char((b[1] % 4) * 16), "=", "=">>
    ELSE IF Len(b) = 2
    THEN <<Base64Char(b[1] \div 4), Base64Char((b[1] % 4) * 16 + b[2] \div 16),
           Base64Char((b[2] % 16) * 4), "=">>
    ELSE <<Base64Char(b[1] \div 4), Base64Char((b[1] % 4) * 16 + b[2] \div 16),
           Base64Char((b[2] % 16) * 4 + b[3] \div 64), Base64Char(b[3] % 64)>>
             \o b64encode(SubSeq(b, 4, Len(b)))

\* base64.b64decode of text that is whole groups of four characters: a group
\* gives three bytes, two with one "=", one with two
RECURSIVE b64decode(_)
b64decode(s) ==
    IF Len(s) = 0 THEN <<>>
    ELSE LET v1 == Base64Value(s[1])
             v2 == Base64Value(s[2])
         IN  IF s[3] = "=" THEN <<v1 * 4 + v2 \div 16>>
             ELSE LET v3 == Base64Value(s[3]) IN
                  IF s[4] = "="
                  THEN <<v1 * 4 + v2 \div 16, (v2 % 16) * 16 + v3 \div 4>>
                  ELSE <<v1 * 4 + v2 \div 16, (v2 % 16) * 16 + v3 \div 4,
                         (v3 % 4) * 64 + Base64Value(s[4])>>
                           \o b64decode(SubSeq(s, 5, Len(s)))

\* audio_utils.py 25-41
audio_buffer_to_base64(buffer) == Returned(b64encode(buffer))

\* a decoder that leaves out a last group that is padded
base64_to_audio_buffer_whole(base64_str) ==
    IF Len(base64_str) % 4 # 0 THEN RaisedError
    ELSE IF base64_str # <<>> /\ base64_str[Len(base64_str)] = "="
    THEN Returned(b64decode(SubSeq(base64_str, 1, Len(base64_str) - 4)))
    ELSE Returned(b64decode(base64_str))

\* audio_utils.py 9-23: b64decode raises binascii.Error on text that is not whole
\* groups; the error is logged and raised again
base64_to_audio_buffer(base64_str) ==
    IF Len(base64_str) % 4 # 0 THEN RaisedError ELSE Returned(b64decode(base64_str))

\* audio_utils.py 25-41: the buffer is encoded
AudioBufferToBase64 ==
    /\ call.fn = "audio_buffer_to_base64" /\ ~ret.done
    /\ ret' = audio_buffer_to_base64(call.arg)
    /\ PureFrame

\* audio_utils.py 9-23: the text just returned is decoded
Base64ToAudioBuffer ==
    /\ call.fn = "audio_buffer_to_base64" /\ ret.done
    /\ call' = [fn |-> "base64_to_audio_buffer", arg |-> ret.value]
    /\ ret' = base64_to_audio_buffer(ret.value)
    /\ UNCHANGED <<client_vars, net_vars, handler_vars, task_vars, tool_vars, env_vars,
                   out_vars, main_vars, registry_vars, forwarded, rest_vars, transport_limit>>

\* C28: decoding the text audio_buffer_to_base64 returned for a buffer, the empty
\* one included, gives that buffer back
C28_Base64RoundTrip ==
    [][(call.fn = "audio_buffer_to_base64" /\ call'.fn = "base64_to_audio_buffer") =>
          /\ call'.arg = ret.value
          /\ ~ret'.raised
          /\ ret'.value = call.arg]_vars

\* a buffer of two bytes came back from its padded text
C28_Witness ==
    /\ call = [fn |-> "base64_to_audio_buffer", arg |-> <<"/", "w", "A", "=">>]
    /\ ret = Returned(<<255, 0>>)

\* ------------------------------------------------------------------- WAV
\* a size below 2^31 as its two halves
AsSize(n) == Size(n \div 65536, n % 65536)

\* a file size that counts the whole header
Plus44(n) == Size(n.hi + (n.lo + 44) \div 65536, (n.lo + 44) % 65536)

\* audio_utils.py 63: file_size = 36 + data_size
Plus36(n) == Size(n.hi + (n.lo + 36) \div 65536, (n.lo + 36) % 65536)

\* struct.pack('<I', n) and struct.pack('<H', n) take n of 32 and of 16 bits
\* (struct.error otherwise) and give its bytes, the lowest first
FitsI(n) == n.hi \in 0..65535 /\ n.lo \in 0..65535

FitsH(n) == n \in 0..65535

PackI(n) == <<n.lo % 256, n.lo \div 256, n.hi % 256, n.hi \div 256>>

PackH(n) == <<n % 256, n \div 256>>

\* b'RIFF', b'WAVE', b'fmt ', b'data'
RiffTag == <<82, 73, 70, 70>>
WaveTag == <<87, 65, 86, 69>>
FmtTag == <<102, 109, 116, 32>>
DataTag == <<100, 97, 116, 97>>

\* audio_utils.py 43-91 create_wav_header: the first struct.pack that is given a
\* value too large for its field raises, and the error is logged and raised again
create_wav_header(data_size, sample_rate, sample_width, channels) ==
    LET file_size == Plus36(data_size) IN
    IF ~FitsI(file_size) \/ ~FitsH(channels) \/ ~FitsI(AsSize(sample_rate))
    THEN RaisedError
    ELSE IF ~FitsI(AsSize(sample_rate * channels * sample_width))
            \/ ~FitsH(channels * sample_width) \/ ~FitsH(sample_width * 8)
            \/ ~FitsI(data_size)
    THEN RaisedError
    ELSE Returned(RiffTag \o PackI(file_size) \o WaveTag
                    \o FmtTag \o PackI(AsSize(16)) \o PackH(1) \o PackH(channels)
                    \o PackI(AsSize(sample_rate))
                    \o PackI(AsSize(sample_rate * channels * sample_width))
                    \o PackH(channels * sample_width) \o PackH(sample_width * 8)
                    \o DataTag \o PackI(data_size))

\* audio_utils.py 93-116 create_wav_from_pcm
create_wav_from_pcm(pcm_data, sample_rate, sample_width, channels) ==
    LET header == create_wav_header(AsSize(Len(pcm_data)), sample_rate, sample_width,
                                    channels)
    IN  IF header.raised THEN RaisedError ELSE Returned(header.value \o pcm_data)

\* audio_utils.py 43-91: the header is made
CreateWavHeader ==
    /\ call.fn = "create_wav_header" /\ ~ret.done
    /\ ret' = create_wav_header(call.arg.data, call.arg.format.sample_rate,
                                call.arg.format.sample_width, call.arg.format.channels)
    /\ PureFrame

\* audio_utils.py 93-116: the file is made
CreateWavFromPcm ==
    /\ call.fn = "create_wav_from_pcm" /\ ~ret.done
    /\ ret' = create_wav_from_pcm(call.arg.data, call.arg.format.sample_rate,
                                  call.arg.format.sample_width, call.arg.format.channels)
    /\ PureFrame

\* the functions of audio_utils.py, each on every argument
InitPure ==
    /\ Init /\ api_key /\ functions = <<>>
    /\ call.fn \in {"audio_buffer_to_base64", "create_wav_header", "create_wav_from_pcm"}
    /\ transport_limit = MaxTransports

NextPure ==
    \/ AudioBufferToBase64
    \/ Base64ToAudioBuffer
    \/ CreateWavHeader
    \/ CreateWavFromPcm

SpecPure == InitPure /\ [][NextPure]_vars

\* the 32-bit field of a header that starts at byte at
Field(bytes, at) ==
    Size(bytes[at + 2] + 256 * bytes[at + 3], bytes[at] + 256 * bytes[at + 1])

\* the header's RIFF size field is 36 more than size, and its data size field is size
SizesDeclared(bytes, size) ==
    /\ Field(bytes, 41) = size
    /\ Field(bytes, 5).lo + 65536 * (Field(bytes, 5).hi - size.hi) = size.lo + 36

\* what create_wav_header returned is a header of 44 bytes for the data size
HeaderFor(data_size) ==
    /\ ~ret.raised
    /\ Len(ret.value) = 44
    /\ SizesDeclared(ret.value, data_size)

\* what create_wav_from_pcm returned is a header of 44 bytes for len(pcm_data)
\* followed by the bytes of pcm_data
FileFor(pcm_data) ==
    /\ ~ret.raised
    /\ Len(ret.value) = 44 + Len(pcm_data)
    /\ SizesDeclared(ret.value, Size(0, Len(pcm_data)))
    /\ SubSeq(ret.value, 45, Len(ret.value)) = pcm_data

\* C29 as stated: for every data size and every format, create_wav_header returns
\* 44 bytes whose data size field is the data size and whose RIFF size field is
\* 36 more, and create_wav_from_pcm returns that header and then the payload
C29_HeaderForEverySize ==
    /\ (call.fn = "create_wav_header" /\ ret.done) => HeaderFor(call.arg.data)
    /\ (call.fn = "create_wav_from_pcm" /\ ret.done) => FileFor(call.arg.data)

\* the data size and the format fit the fields of the header: the data size is at
\* most 2^32 - 37 and there are at most 65535 channels
FitsHeader(data_size, format) ==
    /\ data_size.hi < 65535 \/ (data_size.hi = 65535 /\ data_size.lo <= 65499)
    /\ format.channels <= 65535

\* C29: for every data size of at most 2^32 - 37 bytes and every format whose
\* values fit their fields, create_wav_header returns 44 bytes whose data size
\* field is the data size and whose RIFF size field is 36 more, and
\* create_wav_from_pcm returns that header and then the len(pcm_data) bytes of
\* the payload; for a larger data size or more channels both raise
C29_HeaderForSizesThatFit ==
    /\ (call.fn = "create_wav_header" /\ ret.done) =>
          IF FitsHeader(call.arg.data, call.arg.format)
          THEN HeaderFor(call.arg.data) ELSE ret.raised
    /\ (call.fn = "create_wav_from_pcm" /\ ret.done) =>
          IF FitsHeader(Size(0, Len(call.arg.data)), call.arg.format)
          THEN FileFor(call.arg.data) ELSE ret.raised

\* the header for the largest data size was made: its RIFF size field is 2^32 - 1
C29_Witness ==
    /\ call.fn = "create_wav_header" /\ call.arg.data = Size(65535, 65499)
    /\ ret.done /\ ~ret.raised
    /\ SubSeq(ret.value, 5, 8) = <<255, 255, 255, 255>>

\* ------------------------------------------------- every connection together
\* the connections of handler.py (connect and reconnect, from either loop, with
\* the frames of the client and the answer to a refused tool call) and the
\* connection of main.py
InitConnections == Init /\ functions = <<>> /\ call = NoCall /\ transport_limit = MaxTransports

NextConnections ==
    \/ NextGate
    \/ EvStarted(SendWebhook, "c1")
    \/ SleepReturned
    \/ NextMain

SpecConnections == InitConnections /\ [][NextConnections]_vars

\* the messages before the i-th in msgs have a session.update on transport t
UpdatedBefore(msgs, i, t) ==
    \E j \in 1..(i - 1) : msgs[j] = Up(t, "session.update", NoCallId)

\* C30: on every upstream connection session.update is the first message sent:
\* the step that opens a connection sends session.update on it before anything
\* else, and any other message a step sends goes to a connection that was sent
\* session.update in an earlier step or earlier in the same step
C30_SessionUpdateFirst ==
    [][/\ \A i \in 1..Len(to_upstream') :
             to_upstream'[i].type # "session.update" =>
                 \/ to_upstream'[i].t \in session_sent /\ to_upstream'[i].t <= opened
                 \/ UpdatedBefore(to_upstream', i, to_upstream'[i].t)
       /\ (opened' # opened /\ transport'[opened'] = "open") =>
             /\ to_upstream' # <<>>
             /\ to_upstream'[1] = Up(opened', "session.update", NoCallId)]_vars

\* a commit was sent on the connection a reconnect opened, after its session.update
C30_Witness ==
    /\ last = "handler_connected"
    /\ to_upstream = <<Up(2, "session.update", NoCallId),
                       Up(2, "input_audio_buffer.commit", NoCallId)>>

\* The relay under a client that sends frames, over a client of any
\* configuration: every connect() and reconnect() of either loop
InitSessions == Init /\ call = NoCall /\ transport_limit = MaxTransports

SpecSessions == InitSessions /\ [][NextGate]_vars

\* the steps in which a connect() ran to its return
ConnectSteps ==
    ConnectedSteps \cup {"start_failed", "handler_connect_failed", "task_connect_failed"}

\* the names of the tools a session declares
ToolNames(session) == {session.tools[i] : i \in 1..Len(session.tools)}

\* C31: a connect() that returned True has sent session.update on the new
\* transport, enabled_functions is the set of the tool names that message
\* declares, its tool_choice is "auto" exactly with a tool declared, and it
\* carries the voice, instructions and tools of every session.update sent
\* before; enabled_functions changes only in a step in which connect() ran.
C31_EnabledFunctionsAreSessionTools ==
    [][ /\ last' \in ConnectedSteps =>
            /\ ws' # 0 /\ is_connected'
            /\ to_upstream' # <<>>
            /\ to_upstream'[1] = Up(ws', "session.update", NoCallId)
            /\ session_update'[ws'] # NoSession
            /\ enabled_functions' = ToolNames(session_update'[ws'])
            /\ (session_update'[ws'].tool_choice = "auto"
                    <=> session_update'[ws'].tools # <<>>)
            /\ session_update'[ws'].tool_choice \in {"auto", "none"}
            /\ \A t \in session_sent : session_update[t] = session_update'[ws']
        /\ enabled_functions' # enabled_functions => last' \in ConnectSteps ]_vars

\* C31 witness: a reconnect from the commit path has sent the second
\* session.update of a client configured with one tool
C31_Witness ==
    /\ last = "handler_connected"
    /\ functions = <<SendWebhookSpoken>>
    /\ session_sent = {1, 2}
    /\ session_update[1] = session_update[2]
    /\ session_update[2].tools = <<SendWebhook>>
    /\ session_update[2].tool_choice = "auto"
    /\ enabled_functions = {SendWebhook}

\* ... and the first connect() of a client configured with a function that has
\* no definition: the name leaves enabled_functions, no tool is declared
C31_WitnessNoTool ==
    /\ last = "start"
    /\ functions = <<DeleteAll>>
    /\ enabled_functions = {}
    /\ session_update[ws].tool_choice = "none"

\* the commit is sent upstream on transport t
CommitSentOn(msgs, t) ==
    \E i \in 1..Len(msgs) : msgs[i] = Up(t, "input_audio_buffer.commit", NoCallId)

\* C32: a commit of a buffer at or above the minimum that finds the upstream
\* not connected calls reconnect() once and sends nothing until it returns;
\* when it has returned True the commit goes upstream on the new transport and
\* the client gets the acknowledgement, when it has returned False the client
\* gets the error openai_not_connected and no acknowledgement and nothing goes
\* upstream; either way the buffer is empty and the client loop goes on.
C32_CommitReconnectsOnce ==
    [][ /\ (Receiving /\ ~is_connected /\ audio_buffer >= MinCommitBytes
                /\ last' \in CommitSteps) =>
            /\ last' = "commit_reconnect"
            /\ c_pc' \in {"rc_close", "rc_connect"}
            /\ reconnects_since_close' = CountReconnect(reconnects_since_close)
            /\ to_client' = <<>> /\ to_upstream' = <<>>
        /\ c_pc = "rc_close" => c_pc' \in {"rc_close", "rc_connect"}
        /\ (c_pc = "rc_close" /\ c_pc' = "rc_connect") =>
            /\ to_client' = <<>> /\ to_upstream' = <<>>
            /\ UNCHANGED <<opened, reconnects_since_close, audio_buffer>>
        /\ (c_pc = "rc_connect" /\ c_pc' # "rc_connect") =>
            /\ last' \in {"handler_connected", "handler_connect_failed"}
            /\ c_pc' = "loop"
            /\ audio_buffer' = 0
            /\ ~is_processing'
            /\ opened' <= opened + 1
            /\ UNCHANGED reconnects_since_close
            /\ last' = "handler_connected" =>
                  /\ is_connected' /\ ws' = opened' /\ opened' = opened + 1
                  /\ CommitSentOn(to_upstream', ws')
                  /\ client_open => to_client' = <<CommitAck>>
            /\ last' = "handler_connect_failed" =>
                  /\ to_upstream' = <<>>
                  /\ client_open => to_client' = <<Msg("error:openai_not_connected")>> ]_vars

\* C32 witness: the reconnect of a commit succeeded
C32_Witness ==
    /\ last = "handler_connected"
    /\ CommitSentOn(to_upstream, ws)
    /\ to_client = <<CommitAck>>
    /\ audio_buffer = 0
    /\ c_pc = "loop"

\* ... and one failed
C32_WitnessFailed ==
    /\ last = "handler_connect_failed"
    /\ to_client = <<Msg("error:openai_not_connected")>>
    /\ to_upstream = <<>>
    /\ audio_buffer = 0
    /\ c_pc = "loop"

\* C33: while the upstream is connected on an open transport and the client
\* loop runs for a client that is there, openai_task has not ended.
C33_UpstreamLoopRunsWhileConnected ==
    (is_connected /\ CanSend(ws) /\ c_pc = "loop" /\ client_open) => o_pc # "done"

\* where handle_websocket_connection stands between its accept and its return
HandlerLive == c_pc \in {"loop", "rc_close", "rc_connect", "sleep0"}

\* where websocket_endpoint stands between its accept and its return
EndpointLive == c_pc \in {"forward", "recreate_close", "done"}

\* C34: the websocket is in active_connections exactly while
\* handle_websocket_connection runs for it, and the client_id in
\* client_connections exactly while websocket_endpoint runs for it: neither is
\* left in its registry by a handler that returned, however it returned.
C34_RegistriesHoldLiveConnections ==
    /\ Websocket \in active_connections <=> HandlerLive
    /\ ClientId \in client_connections <=> EndpointLive
    /\ c_pc \in {"returned", "closed"} =>
          active_connections = {} /\ client_connections = {}

\* C34 witness: the handler has returned after the client left, having been
\* registered
C34_Witness ==
    /\ last = "finally"
    /\ c_pc = "returned"
    /\ ~client_open
    /\ active_connections = {}

\* C35: at every suspension point of the two loops, is_connected holds only
\* with a transport in self.ws.
C35_ConnectedHasTransport == is_connected => ws # 0

\* C35 witness: the commit path has reconnected while openai_task stands inside
\* its own reconnect()
C35_Witness ==
    /\ last = "handler_connected"
    /\ o_pc = "rc_connect"
    /\ is_connected
    /\ ws = 2

\* The relay with an endpoint that lets both loops reconnect after the first
\* connection: the client sends frames while the upstream closes connections
InitRace ==
    /\ Init /\ api_key /\ functions = <<>> /\ call = NoCall
    /\ transport_limit = MaxRaceTransports

SpecRace == InitRace /\ [][NextGate]_vars

\* the transports that are open
Open == {t \in Transports : transport[t] = "open"}

\* C36: at most one upstream transport is open at a time, and an open
\* transport is the one in self.ws.
C36_NoTransportLeftOpen ==
    /\ Cardinality(Open) <= 1
    /\ \A t \in Open : t = ws

\* C37: the step of the client loop that handles a frame of the client sends
\* the client exactly one message of the relay's own; for a commit that
\* reconnects, the one message goes out when reconnect() has returned.
C37_OneReplyPerFrame ==
    [][ /\ last' \in FrameSteps \ {"commit_reconnect"} =>
            Len(to_client') = 1 /\ ~to_client'[1].fwd
        /\ last' = "commit_reconnect" => to_client' = <<>>
        /\ (last' \in {"handler_connected", "handler_connect_failed"} /\ client_open) =>
            Len(to_client') = 1 /\ ~to_client'[1].fwd ]_vars

\* C38: a step that sends input_audio_buffer.commit on a transport finds every
\* byte of the local buffer already sent in an append on that transport.
C38_CommittedAudioWasForwarded ==
    [][ \A t \in Transports :
            CommitSentOn(to_upstream', t) => forwarded[t] = audio_buffer ]_vars

\* the function_call_output of call c is among the messages
ItemCreatedFor(msgs, c) ==
    \E i \in 1..Len(msgs) :
        msgs[i].type = "conversation.item.create" /\ msgs[i].call_id = c

\* On a connection that stays up, a call with a call_id that is refused at its
\* started event is sent its function_call_output in that step.
RefusedCallAnsweredAtStarted ==
    (last = "started_rejected" /\ received.call_id # NoCallId) =>
        ItemCreatedFor(to_upstream, received.call_id)

\* C39: the step that refuses a call at its arguments.done event sends no
\* function_call_output for a call that was refused, and so answered, at its
\* started event already.
C39_RefusedCallAnsweredOnce ==
    [][ last' = "done_rejected" =>
            \A c \in rejected_calls : ~ItemCreatedFor(to_upstream', c) ]_vars

\* ------------------------------------------------------ main.py, REST path
\* main.py serves /api/v1/message and /api/v1/audio over one upstream
\* connection per API session: a request handler sends the request upstream
\* and waits for response_ready, while the task listen_openai_for_api reads the
\* upstream and puts the responses into messages_queue.  ws is
\* client_connections[client_id]["openai_ws"], o_pc where the listener stands.

\* main.py 676: the client_id of the connection of the API session
ApiClientId == "api_client_id"

\* what the upstream sends in answer to one request
Answers == {<<"response.done">>, <<"error">>, <<"error", "response.done">>}

\* the events of an answer, each with the number of the request it answers
AnswerEvents(answer, request) ==
    [i \in 1..Len(answer) |-> [type |-> answer[i], request |-> request]]

\* main.py 916-944, 1022-1056: what a request handler sends upstream
RequestMessages(kind, t) ==
    IF kind = "message"
    THEN <<Up(t, "conversation.item.create", NoCallId), Up(t, "response.create", NoCallId)>>
    ELSE <<Up(t, "input_audio_buffer.clear", NoCallId),
           Up(t, "input_audio_buffer.append", NoCallId),
           Up(t, "input_audio_buffer.commit", NoCallId),
           Up(t, "response.create", NoCallId)>>

\* what a step of the REST path leaves alone: the relays of the websockets
RestFrame ==
    /\ executed' = <<>>
    /\ to_client' = <<>>
    /\ UNCHANGED <<is_connected, enabled_functions, close_calls, session_update,
                   ack_received, client_open, handler_vars, o_cancel, o_cont, tool_vars,
                   api_key, functions, rejected_calls, credential_rejected,
                   reconnects_since_close, main_vars, pure_vars, active_connections,
                   forwarded, transport_limit>>

\* main.py 883-946 send_text_message and 993-1056 process_audio up to the wait
\* for response_ready.  Without a connection for the session,
\* create_api_websocket_connection (667-713) opens one, registers it with a new
\* queue, sends session.update and starts the listener; a failure there is
\* HTTP 500.  Then response_ready is cleared and the request is sent; a send
\* that raises is HTTP 500 (973-976, 1086-1089).
api_request(kind, outcome, answer) ==
    /\ r_pc = "idle"
    /\ request_id < MaxRequests
    /\ c_pc = "init"
    /\ request_id' = request_id + 1
    /\ received' = NoEvent
    /\ response_data' = NoItem
    /\ IF ApiClientId \notin client_connections
       THEN /\ outcome \in ConnectOutcomes
            /\ IF outcome = "open"
               THEN /\ transport' = [transport EXCEPT ![NewTransport] = "open"]
                    /\ opened' = NewTransport
                    /\ ws' = NewTransport
                    /\ session_sent' = session_sent \cup {NewTransport}
                    /\ client_connections' = client_connections \cup {ApiClientId}
                    /\ o_pc' = "listen"
                    /\ o_ws' = NewTransport
                    /\ messages_queue' = <<>>
                    /\ response_ready' = FALSE
                    /\ to_upstream' = <<Up(NewTransport, "session.update", NoCallId)>>
                                         \o RequestMessages(kind, NewTransport)
                    /\ api_events' = AnswerEvents(answer, request_id')
                    /\ r_pc' = "waiting"
                    /\ last' = "request_sent"
               ELSE /\ IF outcome = "dead"
                       THEN /\ transport' = [transport EXCEPT ![NewTransport] = "dead"]
                            /\ opened' = NewTransport
                       ELSE UNCHANGED <<transport, opened>>
                    /\ to_upstream' = <<>>
                    /\ last' = "request_failed"
                    /\ UNCHANGED <<ws, session_sent, client_connections, o_pc, o_ws,
                                   messages_queue, response_ready, api_events, r_pc>>
       ELSE /\ outcome = "open"
            /\ response_ready' = FALSE
            /\ UNCHANGED messages_queue
            /\ IF CanSend(ws)
               THEN /\ to_upstream' = RequestMessages(kind, ws)
                    /\ api_events' = api_events \o AnswerEvents(answer, request_id')
                    /\ r_pc' = "waiting"
                    /\ last' = "request_sent"
               ELSE /\ to_upstream' = <<>>
                    /\ last' = "request_failed"
                    /\ UNCHANGED <<api_events, r_pc>>
            /\ UNCHANGED <<transport, opened, ws, session_sent, client_connections,
                           o_pc, o_ws>>
    /\ RestFrame

\* main.py 725-770 listen_openai_for_api on one event: response.done and error
\* each put an item into the queue and set response_ready
listen_openai_for_api ==
    /\ o_pc = "listen"
    /\ o_ws # 0 /\ transport[o_ws] = "open"
    /\ api_events # <<>>
    /\ LET event == Head(api_events) IN
       /\ received' = Frame(event.type)
       /\ messages_queue' =
             Append(messages_queue,
                    [type |-> IF event.type = "error" THEN "error" ELSE "response_complete",
                     request |-> event.request])
    /\ api_events' = Tail(api_events)
    /\ response_ready' = TRUE
    /\ last' = "api_event"
    /\ to_upstream' = <<>>
    /\ UNCHANGED <<ws, transport, opened, session_sent, client_connections, o_pc, o_ws,
                   r_pc, request_id, response_data>>
    /\ RestFrame

\* main.py 725, 779-788: the connection is closed; the listener ends and marks
\* the connection inactive, the entry of client_connections stays
ListenerClosed ==
    /\ o_pc = "listen"
    /\ o_ws # 0 /\ transport[o_ws] \in {"dead", "closed"}
    /\ o_pc' = "done"
    /\ received' = NoEvent
    /\ last' = "listener_closed"
    /\ to_upstream' = <<>>
    /\ UNCHANGED <<ws, transport, opened, session_sent, client_connections, o_ws,
                   rest_vars>>
    /\ RestFrame

\* main.py 947-953, 1058-1064: 60 seconds have passed without response_ready:
\* HTTP 504
RequestTimeout ==
    /\ r_pc = "waiting" /\ ~response_ready
    /\ r_pc' = "idle"
    /\ received' = NoEvent
    /\ last' = "request_timeout"
    /\ to_upstream' = <<>>
    /\ UNCHANGED <<ws, transport, opened, session_sent, client_connections, o_pc, o_ws,
                   messages_queue, response_ready, api_events, request_id,
                   response_data>>
    /\ RestFrame

\* main.py 956-971, 1067-1084: response_ready is set; the first item of the
\* queue is taken and answers the request: HTTP 500 for an error item, the
\* text and audio of the item otherwise
RequestReturned ==
    /\ r_pc = "waiting" /\ response_ready
    /\ messages_queue # <<>>
    /\ response_data' = Head(messages_queue)
    /\ messages_queue' = Tail(messages_queue)
    /\ r_pc' = "idle"
    /\ received' = NoEvent
    /\ last' = "request_returned"
    /\ to_upstream' = <<>>
    /\ UNCHANGED <<ws, transport, opened, session_sent, client_connections, o_pc, o_ws,
                   response_ready, api_events, request_id>>
    /\ RestFrame

InitRest ==
    /\ Init /\ api_key /\ functions = <<>> /\ call = NoCall
    /\ transport_limit = MaxTransports

NextRest ==
    \/ \E kind \in {"message", "audio"}, outcome \in Outcomes, answer \in Answers :
          api_request(kind, outcome, answer)
    \/ listen_openai_for_api
    \/ ListenerClosed
    \/ RequestTimeout
    \/ RequestReturned
    \/ \E t \in Transports : RemoteClose(t)

SpecRest == InitRest /\ [][NextRest]_vars

\* C40: a request starts to wait with messages_queue empty, and the item it
\* takes from the queue was made from an event that answers this request.
C40_ResponseAnswersItsRequest ==
    /\ last = "request_sent" => messages_queue = <<>>
    /\ last = "request_returned" => response_data.request = request_id

=============================================================================
